---- MODULE Spec2Model ----
(***************************************************************************)
(* Background job-listing scraper: the embedded store (jobs, full-text     *)
(* index, change log), the per-profile scrape cycle, the worker scheduler  *)
(* and the shared detail-fetch semaphore.                                  *)
(*                                                                         *)
(* Python values are modelled as tagged tuples so that values of different *)
(* Python types can be compared: <<"str", s>>, <<"none">>, <<"list", l>>.  *)
(* Company names are sequences of one-character strings, so that           *)
(* normalize_company_name is computed character by character.              *)
(***************************************************************************)
EXTENDS Integers, Sequences, FiniteSets, TLC

VARIABLES
    jobs,           \* jobs table: job_id -> row, or NoRow
    jobs_fts,       \* the inverted index of jobs_fts: set of [docid, text]
    job_changes,    \* job_changes table, in insertion order
    change_seq,     \* AUTOINCREMENT counter of job_changes
    now,            \* wall clock, in abstract ticks
    last_scraped,   \* job_id -> tracked values of the latest valid scrape of the job
    cache,          \* one BasicInMemoryCache and its directory: dict, files, flag
    applications,   \* applications table, in insertion order
    op,             \* the last operation: its name, inputs and outcome
    profiles,       \* profiles table: id -> row
    profile_seq,    \* AUTOINCREMENT counter of profiles
    worker_tasks,   \* BackgroundScraperService.worker_tasks: profile id -> task
    tasks,          \* the worker tasks created so far, by task number
    shutdown_event, \* BackgroundScraperService.shutdown_event
    service,        \* "constructed", then "started" once start() has returned
    reload,         \* the task running _reload_profiles_loop; changed and read are
                    \* history: the profiles updated since the loop last read the
                    \* store, and those whose update the running iteration has read
    stop,           \* the call of stop()
    job_semaphore,  \* BackgroundScraperService.job_semaphore: permits left
    fetches,        \* detail fetches of the workers' cycles: worker -> fetch states
    request,        \* one call of request_with_backoff, with what it did so far
    cycle           \* one call of _scrape_profile_once, stage by stage

store_vars == <<jobs, jobs_fts, job_changes, change_seq, now, last_scraped, cache, applications, op>>

sched_vars == <<profiles, profile_seq, worker_tasks, tasks, shutdown_event, service,
                reload, stop>>

fetch_vars == <<job_semaphore, fetches>>

pipeline_vars == <<request, cycle>>

service_vars == <<sched_vars, fetch_vars, pipeline_vars>>

vars == <<jobs, jobs_fts, job_changes, change_seq, now, last_scraped, cache, applications, op,
          profiles, profile_seq, worker_tasks, tasks, shutdown_event, service,
          reload, stop, job_semaphore, fetches, request, cycle>>

(***************************************************************************)
(* Bounds of the model.                                                    *)
(***************************************************************************)
MaxRowid == 3       \* rowids handed out by the jobs table stay <= MaxRowid
MaxChanges == 2     \* rows of job_changes
MaxClock == 1       \* ticks of the wall clock
MaxBatch == 2       \* records in one upsert batch / details of one cycle

(***************************************************************************)
(* Python values.                                                          *)
(***************************************************************************)
None == <<"none">>
S(x) == <<"str", x>>
L(x) == <<"list", x>>

\* dict.get(k, dflt)
Get(d, k, dflt) == IF k \in DOMAIN d THEN d[k] ELSE dflt

\* str(v) for the values a tracked field can hold: str(None) is "None"
Str(v) == IF v = None THEN S("None") ELSE v

\* sqlite3 binds None and str; a list is not a supported parameter type
Bindable(v) == v[1] # "list"

SeqRange(s) == {s[i] : i \in DOMAIN s}

(***************************************************************************)
(* normalize_company_name, on sequences of characters.                     *)
(***************************************************************************)
LowerChar(c) ==
    CASE c = "A" -> "a" [] c = "B" -> "b" [] c = "C" -> "c" [] c = "I" -> "i"
      [] c = "L" -> "l" [] c = "N" -> "n" [] OTHER -> c

Lower(s) == [i \in DOMAIN s |-> LowerChar(s[i])]

RECURSIVE LStrip(_)
LStrip(s) == IF s # <<>> /\ Head(s) = " " THEN LStrip(Tail(s)) ELSE s

RECURSIVE RStrip(_)
RStrip(s) ==
    IF s # <<>> /\ s[Len(s)] = " " THEN RStrip(SubSeq(s, 1, Len(s) - 1)) ELSE s

Strip(s) == RStrip(LStrip(s))

EndsWith(s, suf) ==
    /\ Len(suf) <= Len(s)
    /\ SubSeq(s, Len(s) - Len(suf) + 1, Len(s)) = suf

suffixes == <<
    <<",", " ", "i", "n", "c", ".">>, <<" ", "i", "n", "c", ".">>, <<" ", "i", "n", "c">>,
    <<",", " ", "l", "l", "c">>, <<" ", "l", "l", "c">>,
    <<",", " ", "l", "t", "d", ".">>, <<" ", "l", "t", "d", ".">>, <<" ", "l", "t", "d">>,
    <<",", " ", "c", "o", "r", "p", ".">>, <<" ", "c", "o", "r", "p", ".">>,
    <<" ", "c", "o", "r", "p">>,
    <<",", " ", "c", "o", "r", "p", "o", "r", "a", "t", "i", "o", "n">>,
    <<" ", "c", "o", "r", "p", "o", "r", "a", "t", "i", "o", "n">>,
    <<" ", "l", "i", "m", "i", "t", "e", "d">>,
    <<",", " ", "c", "o", ".">>, <<" ", "c", "o", ".">> >>

\* the first suffix of the list that matches is removed, and only that one
RECURSIVE StripSuffix(_, _)
StripSuffix(s, i) ==
    IF i > Len(suffixes) THEN s
    ELSE IF EndsWith(s, suffixes[i]) THEN SubSeq(s, 1, Len(s) - Len(suffixes[i]))
    ELSE StripSuffix(s, i + 1)

normalize_company_name(name) == Strip(StripSuffix(Lower(Strip(name)), 1))

(***************************************************************************)
(* The store (db.py).  A job record is a dict: a function from column      *)
(* names to values.  Records handed to the store carry every NOT NULL      *)
(* column the callers always provide (job_id, title, company, scraped_at). *)
(***************************************************************************)
columns == <<"job_id", "title", "company", "normalized_company_name",
             "scraped_at", "last_seen", "skills", "number_of_applicants",
             "raw_description", "profile_id">>

Max(set) == CHOOSE x \in set : \A y \in set : y <= x

\* next rowid of the jobs table: one more than the largest rowid in use
NextRowid(jt) == IF DOMAIN jt = {} THEN 1 ELSE Max({jt[j].rowid : j \in DOMAIN jt}) + 1

\* rowid the full-text index gives an entry inserted without a rowid
NextDocid(fts) == IF fts = {} THEN 1 ELSE Max({e.docid : e \in fts}) + 1

\* the indexed columns of jobs_fts
FtsText(row) == <<row.title, row.company, row.raw_description, row.skills>>

\* trigger jobs_fts_insert: AFTER INSERT ON jobs, an entry is added to the index
jobs_fts_insert(fts, row) == fts \cup {[docid |-> NextDocid(fts), text |-> FtsText(row)]}

\* trigger jobs_fts_delete: AFTER DELETE ON jobs, an ordinary DELETE ... WHERE
\* job_id = old.job_id on the external-content index.  The WHERE clause is
\* evaluated against the content table, where the row is already gone: no
\* entry of the index is removed.
jobs_fts_delete(fts, old_row, jt) ==
    fts \ {e \in fts : \E j \in DOMAIN jt :
                          jt[j].rowid = e.docid /\ jt[j].job_id = old_row.job_id}

\* ON DELETE CASCADE from jobs to job_changes
CascadeChanges(ch, ids) == SelectSeq(ch, LAMBDA r : r.job_id \notin ids)

\* line 300-306 of upsert_jobs: the caller's dict is completed in place
PrepareJob(job, t) ==
    LET j1 == IF "normalized_company_name" \notin DOMAIN job
              THEN [k \in DOMAIN job \cup {"normalized_company_name"} |->
                      IF k = "normalized_company_name"
                      THEN normalize_company_name(job["company"]) ELSE job[k]]
              ELSE job
    IN IF "last_seen" \notin DOMAIN j1
       THEN [k \in DOMAIN j1 \cup {"last_seen"} |->
               IF k = "last_seen" THEN t ELSE j1[k]]
       ELSE j1

RowBindable(job) ==
    \A c \in {"skills", "number_of_applicants", "raw_description", "profile_id"} :
        Bindable(Get(job, c, None))

\* INSERT OR REPLACE INTO jobs: a row with the same job_id is deleted first
\* (its job_changes rows cascade; no delete trigger fires for a REPLACE), the
\* new row takes a fresh rowid, and the insert trigger indexes it.
InsertOrReplace(st, job) ==
    LET rid == NextRowid(st.jobs)
        row == [c \in SeqRange(columns) \cup {"rowid"} |->
                  IF c = "rowid" THEN rid ELSE Get(job, c, None)]
        replaced == job["job_id"] \in DOMAIN st.jobs
    IN [jobs |-> [j \in DOMAIN st.jobs \cup {job["job_id"]} |->
                    IF j = job["job_id"] THEN row ELSE st.jobs[j]],
        fts |-> jobs_fts_insert(st.fts, row),
        changes |-> IF replaced THEN CascadeChanges(st.changes, {job["job_id"]})
                    ELSE st.changes]

\* cursor.executemany: the rows are executed in order; a row that cannot be
\* bound raises, and the rows before it have already been executed
RECURSIVE ExecuteMany(_, _, _)
ExecuteMany(st, xs, i) ==
    IF i > Len(xs) THEN [st |-> st, raised |-> FALSE, count |-> Len(xs)]
    ELSE IF ~RowBindable(xs[i]) THEN [st |-> st, raised |-> TRUE, count |-> i - 1]
    ELSE ExecuteMany(InsertOrReplace(st, xs[i]), xs, i + 1)

\* upsert_jobs(jobs): the new tables, the caller's list after the call, and
\* the value returned (or raised)
upsert_jobs(st, xs, t) ==
    IF xs = <<>> THEN [st |-> st, batch |-> xs, raised |-> FALSE, count |-> 0]
    ELSE LET prepared == [i \in DOMAIN xs |-> PrepareJob(xs[i], t)]
             r == ExecuteMany(st, prepared, 1)
         IN [st |-> r.st, batch |-> prepared, raised |-> r.raised, count |-> r.count]

\* get_job(job_id): dict(row) of SELECT *, or None
get_job(jt, id) ==
    IF id \in DOMAIN jt THEN [c \in SeqRange(columns) |-> jt[id][c]] ELSE None

\* record_job_change: one INSERT; the foreign key needs the job to exist.
\* The changed_at column (the time of the call, t) is left out of the rows.
record_job_change(st, seq, job_id, field_name, old_value, new_value, t) ==
    IF job_id \notin DOMAIN st.jobs
    THEN [st |-> st, seq |-> seq, raised |-> TRUE]
    ELSE [st |-> [st EXCEPT !.changes =
                     Append(@, [id |-> seq + 1, job_id |-> job_id,
                                field_name |-> field_name, old_value |-> old_value,
                                new_value |-> new_value])],
          seq |-> seq + 1, raised |-> FALSE]

\* delete_old_jobs(max_age_seconds): DELETE FROM jobs WHERE scraped_at < cutoff
delete_old_jobs(st, max_age, t) ==
    LET cutoff == t - max_age
        gone == {j \in DOMAIN st.jobs : st.jobs[j].scraped_at < cutoff}
        kept == [j \in DOMAIN st.jobs \ gone |-> st.jobs[j]]
        RECURSIVE Fire(_, _)
        Fire(fts, ids) ==
            IF ids = {} THEN fts
            ELSE LET j == CHOOSE x \in ids : TRUE
                 IN Fire(jobs_fts_delete(fts, st.jobs[j], kept), ids \ {j})
    IN [st |-> [jobs |-> kept, fts |-> Fire(st.fts, gone),
                changes |-> CascadeChanges(st.changes, gone)],
        count |-> Cardinality(gone)]

(***************************************************************************)
(* The scrape cycle (background_scraper.py).                               *)
(***************************************************************************)
\* a tracked-field list without the salary
fields_to_track_NoSalary == <<"number_of_applicants", "raw_description">>

fields_to_track == <<"salary", "number_of_applicants", "raw_description">>

\* _detect_job_changes(old_job, new_job): the record_job_change calls it
\* makes, in order, as long as none of them raises
RECURSIVE DetectFrom(_, _, _)
DetectFrom(old_job, new_job, i) ==
    IF i > Len(fields_to_track) THEN <<>>
    ELSE LET field == fields_to_track[i]
             old_value == Get(old_job, field, S(""))
             new_value == Get(new_job, field, S(""))
             rest == DetectFrom(old_job, new_job, i + 1)
         IN IF old_value # new_value
            THEN <<[job_id |-> old_job["job_id"], field_name |-> field,
                    old_value |-> Str(old_value), new_value |-> Str(new_value)]>>
                 \o rest
            ELSE rest

_detect_job_changes(old_job, new_job) == DetectFrom(old_job, new_job, 1)

\* the calls of a _detect_job_changes run applied to the store, one by one;
\* a call that raises ends the run
RECURSIVE ApplyCalls(_, _, _, _)
ApplyCalls(st, seq, calls, t) ==
    IF calls = <<>> THEN [st |-> st, seq |-> seq, raised |-> FALSE]
    ELSE LET c == Head(calls)
             r == record_job_change(st, seq, c.job_id, c.field_name,
                                    c.old_value, c.new_value, t)
         IN IF r.raised THEN r ELSE ApplyCalls(r.st, r.seq, Tail(calls), t)

NA == <<"N", "/", "A">>

\* a cycle that skips no detail
IsSentinel_Never(detail) == FALSE

\* line 198: a detail whose title or company is the sentinel is skipped
IsSentinel(detail) == detail["title"] = "N/A" \/ detail["company"] = NA

\* job_dict = asdict(detail); job_dict["profile_id"] = profile.id
JobDict(detail, profile_id) ==
    [k \in DOMAIN detail \cup {"profile_id"} |->
        IF k = "profile_id" THEN <<"int", profile_id>> ELSE detail[k]]

\* lines 195-211 of _scrape_profile_once: the loop over the details.  acc is
\* [st, seq, batch, calls, raised].
RECURSIVE DetailLoop(_, _, _, _, _)
DetailLoop(acc, details, i, profile_id, t) ==
    IF i > Len(details) \/ acc.raised THEN acc
    ELSE IF IsSentinel(details[i]) THEN DetailLoop(acc, details, i + 1, profile_id, t)
    ELSE LET job_dict == JobDict(details[i], profile_id)
             \* existing = self.db.get_job(detail.job_id); if existing: ...
             calls == IF details[i]["job_id"] \in DOMAIN acc.st.jobs
                      THEN _detect_job_changes(
                               get_job(acc.st.jobs, details[i]["job_id"]), job_dict)
                      ELSE <<>>
             r == ApplyCalls(acc.st, acc.seq, calls, t)
         IN DetailLoop([st |-> r.st, seq |-> r.seq,
                        batch |-> IF r.raised THEN acc.batch
                                  ELSE Append(acc.batch, job_dict),
                        calls |-> acc.calls \o calls, raised |-> r.raised],
                       details, i + 1, profile_id, t)

\* _scrape_profile_once after the two network stages returned `details`
\* (one record per job id of the summaries; no summaries, no details)
_scrape_profile_once(st, seq, details, profile_id, t) ==
    IF details = <<>>
    THEN [st |-> st, seq |-> seq, batch |-> <<>>, calls |-> <<>>, upserted |-> FALSE,
          raised |-> FALSE, count |-> 0]
    ELSE LET l == DetailLoop([st |-> st, seq |-> seq, batch |-> <<>>, calls |-> <<>>,
                              raised |-> FALSE], details, 1, profile_id, t)
             u == upsert_jobs(l.st, l.batch, t)
         IN IF l.raised
            THEN [st |-> l.st, seq |-> l.seq, batch |-> l.batch, calls |-> l.calls,
                  upserted |-> FALSE, raised |-> TRUE, count |-> 0]
            ELSE [st |-> u.st, seq |-> l.seq, batch |-> l.batch, calls |-> l.calls,
                  upserted |-> TRUE, raised |-> u.raised, count |-> u.count]

(***************************************************************************)
(* Inputs.                                                                 *)
(***************************************************************************)
JobIds == {"1", "2"}
ProfileIds == {1, 2}
AbInc == <<"A", "b", " ", "I", "n", "c">>
Salaries == {S("$100K"), S("$120K")}
Applicants == {S("50"), S("75")}
Descriptions == {S("D1"), S("D2")}

\* records a caller of the store API builds: text columns are text
ApiJobs(t) ==
    {[job_id |-> id, title |-> "T", company |-> AbInc, scraped_at |-> t,
      skills |-> S("[]"), number_of_applicants |-> S("50"), raw_description |-> d]
        : id \in JobIds, d \in Descriptions}

\* asdict(JobDetail) of a parsed detail page: skills is a list
ParsedDetail(id, ti, sa, ap, t) ==
    [job_id |-> id, title |-> ti, company |-> AbInc,
     normalized_company_name |-> normalize_company_name(AbInc), scraped_at |-> t,
     salary |-> sa, number_of_applicants |-> ap, raw_description |-> S("D1"),
     skills |-> L(<<>>)]

ParsedDetails(t) ==
    {ParsedDetail(id, "T", sa, ap, t) : id \in JobIds, sa \in Salaries, ap \in Applicants}
    \cup {ParsedDetail(id, "N/A", S("N/A"), S("N/A"), t) : id \in JobIds}

\* the sentinel-valued JobDetail of a job id
SentinelDetail(id, t) ==
    [job_id |-> id, title |-> "N/A", company |-> NA,
     normalized_company_name |-> NA, scraped_at |-> t,
     salary |-> S("N/A"), number_of_applicants |-> S("N/A"),
     raw_description |-> S("N/A"), skills |-> L(<<>>)]

\* the record fetch_single_job_detail returns when the fetch failed
FailedDetails(t) == {SentinelDetail(id, t) : id \in JobIds}

\* a parsed page whose company element was not found
NoCompanyDetails(t) ==
    {[ParsedDetail(id, "T", S("$100K"), S("50"), t)
        EXCEPT !["company"] = NA, !["normalized_company_name"] = normalize_company_name(NA)]
        : id \in JobIds}

Details(t) == ParsedDetails(t) \cup FailedDetails(t) \cup NoCompanyDetails(t)

SeqsUpTo(set, n) == UNION {[1..k -> set] : k \in 0..n}

\* BackgroundScraperService.__init__, over a store that holds no profile yet
\* no call of request_with_backoff
NoRequest == [pc |-> "absent", attempt |-> 0, base_delay |-> 0, jitter |-> FALSE,
              responses |-> <<>>, sleeps |-> <<>>, result |-> "none"]

\* no call of _scrape_profile_once
NoCycle == [pc |-> "absent", profile |-> 0, page |-> 0, log |-> <<>>, summaries |-> <<>>,
            listing_failed |-> TRUE, details |-> <<>>, batch |-> <<>>, count |-> 0]

SchedConstructed ==
    /\ profiles = <<>>
    /\ profile_seq = 0
    /\ worker_tasks = <<>>
    /\ tasks = <<>>
    /\ shutdown_event = FALSE
    /\ service = "constructed"
    /\ reload = [pc |-> "absent", current |-> {}, queue |-> <<>>, awaiting |-> <<0, 0>>,
                 last |-> "none", changed |-> {}, read |-> {}]
    /\ stop = [pc |-> "idle", waiting |-> {}]
    /\ job_semaphore = 3
    /\ fetches = [w \in ProfileIds |-> <<>>]
    /\ request = NoRequest
    /\ cycle = NoCycle

\* ---------------------------------------------------------------------------
\* BasicInMemoryCache (cache.py).  _cache is a dict: the items in insertion
\* order, one per key.  cache_file holds the lines of the JSONL file (a file
\* that does not exist loads like an empty one); temp_file is the sibling
\* with the suffix .tmp, Absent when it does not exist.  flush is the position
\* of a running flush() and caller the public call it runs in.
\* ---------------------------------------------------------------------------
Absent == <<"absent">>

NoCache == [_cache |-> <<>>, cache_file |-> <<>>, temp_file |-> Absent,
            _needs_flush |-> FALSE, flush |-> "idle", caller |-> "none", count |-> 0]

\* exists(key_value): key_value in self._cache
exists(d, key_value) == \E i \in DOMAIN d : d[i].job_id = key_value

\* self._cache[key] = item: a key the dict has keeps its place
DictSet(d, item) ==
    IF exists(d, item.job_id)
    THEN [i \in DOMAIN d |-> IF d[i].job_id = item.job_id THEN item ELSE d[i]]
    ELSE Append(d, item)

\* _load_cache: the lines in order, a later line replacing an earlier one of
\* its key; a line whose key is empty is skipped
RECURSIVE _load_cache(_)
_load_cache(lines) ==
    IF lines = <<>> THEN <<>>
    ELSE LET d == _load_cache(SubSeq(lines, 1, Len(lines) - 1))
             obj == lines[Len(lines)]
         IN  IF obj.job_id # "" THEN DictSet(d, obj) ELSE d

\* a put that appends the item to the file whether or not its key is new
put_AlwaysAppend(c, item, overwrite) ==
    IF exists(c._cache, item.job_id) /\ ~overwrite
    THEN [c |-> c, ret |-> FALSE]
    ELSE [c |-> [c EXCEPT !._cache = DictSet(@, item),
                          !.cache_file = Append(@, item)],
          ret |-> TRUE]

\* put(serializable_structure, overwrite): False for a key the dict has when
\* overwrite is not set; else the dict is updated, and the item is appended
\* to the file when its key is new, or the flag is set when it is not
put(c, item, overwrite) ==
    LET is_overwrite == exists(c._cache, item.job_id)
    IN  IF is_overwrite /\ ~overwrite
        THEN [c |-> c, ret |-> FALSE]
        ELSE IF is_overwrite
        THEN [c |-> [c EXCEPT !._cache = DictSet(@, item), !._needs_flush = TRUE],
              ret |-> TRUE]
        ELSE [c |-> [c EXCEPT !._cache = DictSet(@, item),
                              !.cache_file = Append(@, item)],
              ret |-> TRUE]

\* the loop of put_batch: [c, count]
RECURSIVE PutAll(_, _, _)
PutAll(c, items, overwrite) ==
    IF items = <<>> THEN [c |-> c, count |-> 0]
    ELSE LET r == put(c, Head(items), overwrite)
             rest == PutAll(r.c, Tail(items), overwrite)
         IN  [c |-> rest.c, count |-> rest.count + (IF r.ret THEN 1 ELSE 0)]

\* jsonlines.open(temp_file, mode='w'): the temporary file is there, empty
flush_open(c) == [c EXCEPT !.temp_file = <<>>, !.flush = "writing"]

\* writer.write(item) for the next value of the dict
flush_write(c) ==
    [c EXCEPT !.temp_file = Append(@, c._cache[Len(c.temp_file) + 1])]

\* temp_file.replace(self.cache_file); self._needs_flush = False
flush_replace(c) ==
    [c EXCEPT !.cache_file = c.temp_file, !.temp_file = Absent,
              !._needs_flush = FALSE, !.flush = "idle", !.caller = "none"]

\* an except clause that leaves the temporary file behind
flush_except_Keep(c) == [c EXCEPT !.flush = "idle", !.caller = "none"]

\* the except clause of flush: temp_file.unlink() if it exists, then raise
flush_except(c) ==
    [c EXCEPT !.temp_file = Absent, !.flush = "idle", !.caller = "none"]

NoOp == [name |-> "none", arg |-> <<>>, batch |-> <<>>, calls |-> <<>>,
         upserted |-> FALSE, raised |-> FALSE, count |-> 0, profile |-> 0]

Store == [jobs |-> jobs, fts |-> jobs_fts, changes |-> job_changes]

InitStore ==
    /\ jobs = <<>>
    /\ jobs_fts = {}
    /\ job_changes = <<>>
    /\ change_seq = 0
    /\ now = 0
    /\ last_scraped = <<>>
    /\ cache = NoCache
    /\ applications = <<>>
    /\ op = NoOp
    /\ SchedConstructed

\* the caller has the outcome of the last operation and lets go of it
Return ==
    /\ op.name # "none"
    /\ op' = NoOp
    /\ UNCHANGED <<jobs, jobs_fts, job_changes, change_seq, now, last_scraped, cache, applications>>
    /\ UNCHANGED service_vars

\* time passes
Tick ==
    /\ op.name = "none"
    /\ now < MaxClock
    /\ now' = now + 1
    /\ op' = [NoOp EXCEPT !.name = "tick"]
    /\ UNCHANGED <<jobs, jobs_fts, job_changes, change_seq, last_scraped, cache, applications>>
    /\ UNCHANGED service_vars

\* trigger jobs_fts_update: AFTER UPDATE ON jobs, the delete of
\* jobs_fts_delete and the insert of jobs_fts_insert.  The content table
\* still has a row with old.job_id, so the entry at its rowid is removed; the
\* entry inserted takes the index's next rowid.
jobs_fts_update(fts, old_row, new_row, jt) ==
    jobs_fts_insert(jobs_fts_delete(fts, old_row, jt), new_row)

\* a store whose foreign keys are not enforced: no action on the jobs
OnDeleteSetNull_NoAction(st, profile_id) == st

\* FOREIGN KEY (profile_id) REFERENCES profiles(id) ON DELETE SET NULL: the
\* jobs of a deleted profile are updated in rowid order, and each update
\* fires jobs_fts_update
OnDeleteSetNull(st, profile_id) ==
    LET SetNull(row) == [row EXCEPT !["profile_id"] = None]
        refs == {j \in DOMAIN st.jobs : st.jobs[j]["profile_id"] = <<"int", profile_id>>}
        RECURSIVE Fire(_, _)
        Fire(acc, ids) ==
            IF ids = {} THEN acc
            ELSE LET j == CHOOSE x \in ids :
                              \A y \in ids : st.jobs[x].rowid <= st.jobs[y].rowid
                     jt == [acc.jobs EXCEPT ![j] = SetNull(@)]
                 IN Fire([acc EXCEPT !.jobs = jt,
                                     !.fts = jobs_fts_update(acc.fts, st.jobs[j], jt[j], jt)],
                         ids \ {j})
    IN Fire(st, refs)

\* ON DELETE CASCADE from jobs to applications: the rows of the jobs that
\* were deleted, or replaced by INSERT OR REPLACE (the row has a new rowid)
CascadeApplications(apps, old_jobs, new_jobs) ==
    SelectSeq(apps, LAMBDA a :
        /\ a.job_id \in DOMAIN old_jobs => a.job_id \in DOMAIN new_jobs
        /\ a.job_id \in DOMAIN old_jobs \cap DOMAIN new_jobs
             => new_jobs[a.job_id].rowid = old_jobs[a.job_id].rowid)

SetStore(st) ==
    /\ applications' = CascadeApplications(applications, jobs, st.jobs)
    /\ jobs' = st.jobs
    /\ jobs_fts' = st.fts
    /\ job_changes' = st.changes

\* a caller of the store upserts a batch
UpsertJobs ==
    \E xs \in SeqsUpTo(ApiJobs(now), MaxBatch) :
        /\ op.name = "none"
        /\ NextDocid(jobs_fts) - 1 + Len(xs) <= MaxRowid
        /\ LET r == upsert_jobs(Store, xs, now)
           IN /\ SetStore(r.st)
              /\ op' = [NoOp EXCEPT !.name = "upsert_jobs",
                                    !.batch = r.batch, !.raised = r.raised,
                                    !.count = r.count, !.upserted = TRUE]
        /\ UNCHANGED <<change_seq, now, last_scraped, cache>>
    /\ UNCHANGED service_vars
        /\ UNCHANGED service_vars

\* the caller upserts the very list it has just upserted
UpsertJobsAgain ==
    /\ op.name \in {"upsert_jobs", "upsert_jobs_again"}
    /\ ~op.raised
    /\ op.batch # <<>>
    /\ NextDocid(jobs_fts) - 1 + Len(op.batch) <= MaxRowid
    /\ LET r == upsert_jobs(Store, op.batch, now)
       IN /\ SetStore(r.st)
          /\ op' = [NoOp EXCEPT !.name = "upsert_jobs_again",
                                !.batch = r.batch, !.raised = r.raised,
                                !.count = r.count, !.upserted = TRUE]
    /\ UNCHANGED <<change_seq, now, last_scraped, cache>>
    /\ UNCHANGED service_vars

DeleteOldJobs ==
    \E max_age \in 0..MaxClock :
        LET r == delete_old_jobs(Store, max_age, now)
        IN /\ op.name = "none"
           /\ SetStore(r.st)
           /\ op' = [NoOp EXCEPT !.name = "delete_old_jobs", !.count = r.count]
           /\ UNCHANGED <<change_seq, now, last_scraped, cache>>
           /\ UNCHANGED service_vars
    /\ UNCHANGED service_vars
        /\ UNCHANGED service_vars

\* one scrape cycle of a profile, the network stages having returned `details`
ScrapeProfileOnce ==
    \E p \in ProfileIds, details \in SeqsUpTo(Details(now), MaxBatch) :
        LET r == _scrape_profile_once(Store, change_seq, details, p, now)
            valid == {i \in DOMAIN details : ~IsSentinel(details[i])}
            scraped == {details[i]["job_id"] : i \in valid}
            Latest(id) == details[Max({i \in valid : details[i]["job_id"] = id})]
        IN /\ op.name = "none"
           /\ r.seq <= MaxChanges
           /\ SetStore(r.st)
           /\ change_seq' = r.seq
           /\ last_scraped' = [id \in DOMAIN last_scraped \cup scraped |->
                                 IF id \in scraped
                                 THEN [f \in SeqRange(fields_to_track) |-> Latest(id)[f]]
                                 ELSE last_scraped[id]]
           /\ op' = [NoOp EXCEPT !.name = "scrape", !.arg = details, !.batch = r.batch,
                                 !.calls = r.calls, !.upserted = r.upserted,
                                 !.raised = r.raised, !.count = r.count,
                                 !.profile = p]
           /\ UNCHANGED <<now, cache>>
           /\ UNCHANGED service_vars

\* a caller of the store records a change of a job
RecordJobChange ==
    \E id \in JobIds, f \in SeqRange(fields_to_track), v \in Salaries :
        LET r == record_job_change(Store, change_seq, id, f, S(""), v, now)
        IN /\ op.name = "none"
           /\ r.seq <= MaxChanges
           /\ SetStore(r.st)
           /\ change_seq' = r.seq
           /\ op' = [NoOp EXCEPT !.name = "record_job_change", !.raised = r.raised]
           /\ UNCHANGED <<now, last_scraped, cache>>
    /\ UNCHANGED service_vars
           /\ UNCHANGED service_vars

(***************************************************************************)
(* The store under the calls of its API.                                   *)
(***************************************************************************)
NextStore ==
    \/ Return
    \/ Tick
    \/ UpsertJobs
    \/ UpsertJobsAgain
    \/ DeleteOldJobs
    \/ RecordJobChange

SpecStore == InitStore /\ [][NextStore]_vars

(***************************************************************************)
(* Scrape cycles over a store that a batch of jobs was loaded into (the    *)
(* state migrate_cache leaves: one upsert_jobs of the migrated records).   *)
(***************************************************************************)
InitCycle ==
    \E xs \in SeqsUpTo(ApiJobs(0), MaxBatch) :
        LET r == upsert_jobs([jobs |-> <<>>, fts |-> {}, changes |-> <<>>], xs, 0)
        IN /\ jobs = r.st.jobs
           /\ jobs_fts = r.st.fts
           /\ job_changes = r.st.changes
           /\ change_seq = 0
           /\ now = 0
           /\ last_scraped = <<>>
           /\ cache = NoCache
           /\ applications = <<>>
           /\ op = NoOp
           /\ SchedConstructed

NextCycle ==
    \/ Return
    \/ ScrapeProfileOnce

SpecCycle == InitCycle /\ [][NextCycle]_vars

\* the first cycle over a store migrated from an empty cache or from a cache
\* of one record
InitFirstCycle ==
    \E xs \in {<<>>} \cup {<<x>> : x \in ApiJobs(0)} :
        LET r == upsert_jobs([jobs |-> <<>>, fts |-> {}, changes |-> <<>>], xs, 0)
        IN /\ jobs = r.st.jobs
           /\ jobs_fts = r.st.fts
           /\ job_changes = r.st.changes
           /\ change_seq = 0
           /\ now = 0
           /\ last_scraped = <<>>
           /\ cache = NoCache
           /\ applications = <<>>
           /\ op = NoOp
           /\ SchedConstructed

NextFirstCycle == ScrapeProfileOnce

SpecFirstCycle == InitFirstCycle /\ [][NextFirstCycle]_vars

(***************************************************************************)
(* _detect_job_changes on its own: a pair of records is drawn, the old one *)
(* being a record of a job the store holds, and the function is applied.   *)
(***************************************************************************)
OldJobs ==
    UNION {
      {[job_id |-> "1", title |-> "T", number_of_applicants |-> ap, raw_description |-> d],
       [job_id |-> "1", title |-> "T", number_of_applicants |-> ap, raw_description |-> d,
        salary |-> sa]}
        : sa \in Salaries \cup {None}, ap \in {S("50"), None}, d \in Descriptions}

NewJobs ==
    {[job_id |-> id, title |-> "U", salary |-> sa, number_of_applicants |-> ap,
      raw_description |-> d]
        : id \in JobIds, sa \in Salaries \cup {S("")}, ap \in Applicants,
          d \in Descriptions}

InitDetect ==
    \E old_job \in OldJobs, new_job \in NewJobs :
        LET r == upsert_jobs([jobs |-> <<>>, fts |-> {}, changes |-> <<>>],
                             <<CHOOSE x \in ApiJobs(0) : x["job_id"] = old_job["job_id"]>>, 0)
        IN /\ jobs = r.st.jobs
           /\ jobs_fts = r.st.fts
           /\ job_changes = r.st.changes
           /\ change_seq = 0
           /\ now = 0
           /\ last_scraped = <<>>
           /\ cache = NoCache
           /\ applications = <<>>
           /\ op = [NoOp EXCEPT !.name = "detect_called", !.arg = <<old_job, new_job>>]
           /\ SchedConstructed

DetectJobChanges ==
    /\ op.name = "detect_called"
    /\ LET calls == _detect_job_changes(op.arg[1], op.arg[2])
           r == ApplyCalls(Store, change_seq, calls, now)
       IN /\ SetStore(r.st)
          /\ change_seq' = r.seq
          /\ op' = [op EXCEPT !.name = "detect", !.calls = calls, !.raised = r.raised]
    /\ UNCHANGED <<now, last_scraped, cache>>
    /\ UNCHANGED service_vars

NextDetect == DetectJobChanges

SpecDetect == InitDetect /\ [][NextDetect]_vars

(***************************************************************************)
(* Claims about the store.                                                 *)
(***************************************************************************)

\* what SELECT * FROM jobs shows: the rows without their rowid
JobRows == [j \in DOMAIN jobs |-> get_job(jobs, j)]

\* the entries of the full-text index, counted per indexed text
FtsRows == [t \in {e.text : e \in jobs_fts} |->
              Cardinality({e \in jobs_fts : e.text = t})]

\* C7: the change log is append-only: a job_changes row that has been written
\* is still there, unaltered, after every step that leaves its job in the jobs
\* table; in particular after an upsert_jobs of the same job_id.
C7_ChangeLogAppendOnly ==
    [][\A i \in DOMAIN job_changes :
          job_changes[i].job_id \in DOMAIN jobs'
          => \E k \in DOMAIN job_changes' : job_changes'[k] = job_changes[i]]_vars

\* C8: upsert_jobs(xs) followed by upsert_jobs(xs) leaves the observable state
\* of a single upsert_jobs(xs): the same job rows and the same full-text
\* index rows.
C8_UpsertIdempotent ==
    [][op'.name = "upsert_jobs_again"
          => /\ JobRows' = JobRows
             /\ FtsRows' = FtsRows]_vars

\* C9: after any sequence of upsert_jobs and delete_old_jobs calls the
\* full-text index holds exactly one entry for every job of the jobs table,
\* with that job's current text, and no entry for an absent job or for a
\* superseded version of a job.
C9_FtsInSync ==
    /\ \A j \in DOMAIN jobs :
          Cardinality({e \in jobs_fts : e.docid = jobs[j].rowid}) = 1
          /\ \A e \in jobs_fts : e.docid = jobs[j].rowid => e.text = FtsText(jobs[j])
    /\ \A e \in jobs_fts : \E j \in DOMAIN jobs : jobs[j].rowid = e.docid

(***************************************************************************)
(* Claims about the scrape cycle.                                          *)
(***************************************************************************)

\* the rows a step has added to job_changes
NewRows == {job_changes'[k] : k \in {i \in DOMAIN job_changes' : job_changes'[i].id > change_seq}}

ValidDetails(details) == SelectSeq(details, LAMBDA d : ~IsSentinel(d))

\* the record a cycle scraped for a job: the last valid one of its details
ScrapedIn(details, id) ==
    LET v == ValidDetails(details)
    IN v[Max({i \in DOMAIN v : v[i]["job_id"] = id})]

\* C5: a cycle that observes again a job of the store writes exactly one
\* job_changes row for each tracked field whose scraped value differs from the
\* value scraped in the previous cycle, and none for a tracked field whose
\* value is the same.
C5_OneRowPerChangedField ==
    [][op'.name = "scrape"
         => \A id \in DOMAIN jobs \cap DOMAIN last_scraped :
              id \in {d["job_id"] : d \in SeqRange(ValidDetails(op'.arg))}
              => \A f \in SeqRange(fields_to_track) :
                    Cardinality({r \in NewRows : r.job_id = id /\ r.field_name = f})
                    = IF ScrapedIn(op'.arg, id)[f] # last_scraped[id][f] THEN 1 ELSE 0]_vars

\* C6: _detect_job_changes(old, new) calls record_job_change exactly once for
\* each tracked field whose value in old differs from its value in new, with
\* the old job's id and the two values as strings, and makes no other call.
C6_DetectCallsPerChangedField ==
    op.name = "detect"
    => LET old_job == op.arg[1]
           new_job == op.arg[2]
           Calls(f) == {k \in DOMAIN op.calls : op.calls[k].field_name = f}
       IN /\ \A f \in {"salary", "number_of_applicants", "raw_description"} :
                LET o == IF f \in DOMAIN old_job THEN old_job[f] ELSE S("")
                    n == IF f \in DOMAIN new_job THEN new_job[f] ELSE S("")
                IN /\ Cardinality(Calls(f)) = IF o = n THEN 0 ELSE 1
                   /\ \A k \in Calls(f) :
                        /\ op.calls[k].job_id = old_job["job_id"]
                        /\ op.calls[k].old_value = (IF o = None THEN S("None") ELSE o)
                        /\ op.calls[k].new_value = (IF n = None THEN S("None") ELSE n)
          /\ \A k \in DOMAIN op.calls :
                op.calls[k].field_name \in {"salary", "number_of_applicants", "raw_description"}
          /\ ~op.raised
          /\ Len(job_changes) = Len(op.calls)

\* a call was made for a changed field, none for an equal one, and the
\* untracked title differed
C6_Witness ==
    /\ op.name = "detect"
    /\ Len(op.calls) = 2
    /\ op.arg[1]["raw_description"] = op.arg[2]["raw_description"]
    /\ op.arg[1]["title"] # op.arg[2]["title"]
    /\ op.arg[1]["number_of_applicants"] = None
    /\ op.arg[1]["job_id"] # op.arg[2]["job_id"]

\* C10: a cycle whose detail stage returns k valid records passes exactly
\* those k records, each with the profile's id, to upsert_jobs, persists them
\* and returns the affected-row count of the store.
C10_CycleUpsertsValidDetails ==
    op.name = "scrape"
    => LET valid == ValidDetails(op.arg)
       IN Len(valid) >= 1
          => /\ op.upserted
             /\ Len(op.batch) = Len(valid)
             /\ \A i \in DOMAIN valid :
                   /\ op.batch[i]["profile_id"] = <<"int", op.profile>>
                   /\ \A k \in DOMAIN valid[i] : op.batch[i][k] = valid[i][k]
             /\ ~op.raised
             /\ \A i \in DOMAIN valid :
                   /\ valid[i]["job_id"] \in DOMAIN jobs
                   /\ jobs[valid[i]["job_id"]].profile_id = <<"int", op.profile>>
             /\ op.count = Len(valid)

\* ---------------------------------------------------------------------------
\* The profiles table (db.py) as the scheduler sees it.  A row keeps the
\* columns the scheduler reads or writes; last_scraped_at is 0 for NULL and
\* 1 for a timestamp.
\* ---------------------------------------------------------------------------

MaxProfiles == 2

\* the dictionaries callers hand to upsert_profile
ProfileInputs ==
    {[name |-> "default", location |-> "San Francisco, CA",
      keywords |-> "AI Engineer OR ML Engineer OR Research Engineer",
      distance |-> 25, time_filter |-> "r7200",
      refresh_interval |-> 7200, enabled |-> e] : e \in {0, 1}}
    \cup {[name |-> "a", location |-> "Madrid", keywords |-> "ML Engineer",
            distance |-> 10, time_filter |-> "r86400",
            refresh_interval |-> 100, enabled |-> e] : e \in {0, 1}}

list_profiles(ps, enabled_only) ==
    {id \in DOMAIN ps : enabled_only => ps[id].enabled = 1}

\* an upsert that does not look the name up and meets no UNIQUE constraint
upsert_profile_InsertAlways(ps, seq, profile) ==
    [ps |-> (seq + 1 :> [name |-> profile.name,
                         location |-> profile.location,
                         keywords |-> profile.keywords,
                         distance |-> profile.distance,
                         time_filter |-> profile.time_filter,
                         refresh_interval |-> profile.refresh_interval,
                         enabled |-> profile.enabled,
                         last_scraped_at |-> 0]) @@ ps,
     seq |-> seq + 1,
     id |-> seq + 1]

\* profile.get(key, default)
DictGet(profile, key, default) ==
    IF key \in DOMAIN profile THEN profile[key] ELSE default

upsert_profile(ps, seq, profile) ==
    LET found == {id \in DOMAIN ps : ps[id].name = profile.name}
        distance == DictGet(profile, "distance", 25)
        time_filter == DictGet(profile, "time_filter", "r7200")
        refresh_interval == DictGet(profile, "refresh_interval", 3600)
        enabled == DictGet(profile, "enabled", 1)
    IN  IF found # {}
        THEN LET profile_id == CHOOSE id \in found : TRUE
             IN  [ps |-> [ps EXCEPT ![profile_id].location = profile.location,
                                    ![profile_id].keywords = profile.keywords,
                                    ![profile_id].distance = distance,
                                    ![profile_id].time_filter = time_filter,
                                    ![profile_id].refresh_interval = refresh_interval,
                                    ![profile_id].enabled = enabled],
                  seq |-> seq,
                  id |-> profile_id]
        ELSE [ps |-> (seq + 1 :> [name |-> profile.name,
                                  location |-> profile.location,
                                  keywords |-> profile.keywords,
                                  distance |-> distance,
                                  time_filter |-> time_filter,
                                  refresh_interval |-> refresh_interval,
                                  enabled |-> enabled,
                                  last_scraped_at |-> 0]) @@ ps,
              seq |-> seq + 1,
              id |-> seq + 1]

\* a delete that ignores hard_delete and removes the row
delete_profile_AlwaysHard(ps, profile_id, hard_delete) ==
    [id \in DOMAIN ps \ {profile_id} |-> ps[id]]

delete_profile(ps, profile_id, hard_delete) ==
    IF hard_delete
    THEN [id \in DOMAIN ps \ {profile_id} |-> ps[id]]
    ELSE [id \in DOMAIN ps |-> IF id = profile_id THEN [ps[id] EXCEPT !.enabled = 0] ELSE ps[id]]

update_profile_last_run(ps, profile_id) ==
    [id \in DOMAIN ps |->
        IF id = profile_id THEN [ps[id] EXCEPT !.last_scraped_at = 1] ELSE ps[id]]

\* a seeding that counts the enabled profiles only
seed_default_profile_EnabledOnly(ps, seq) ==
    IF list_profiles(ps, TRUE) # {}
    THEN [ps |-> ps, seq |-> seq, id |-> 0]
    ELSE upsert_profile(ps, seq,
                        [name |-> "default", location |-> "San Francisco, CA",
                         keywords |-> "AI Engineer OR ML Engineer OR Research Engineer",
                         distance |-> 25, time_filter |-> "r7200",
                         refresh_interval |-> 7200, enabled |-> 1])

\* a seeding that inserts nothing
seed_default_profile_Never(ps, seq) == [ps |-> ps, seq |-> seq, id |-> 0]

seed_default_profile(ps, seq) ==
    IF Cardinality(DOMAIN ps) > 0
    THEN [ps |-> ps, seq |-> seq, id |-> 0]
    ELSE upsert_profile(ps, seq,
                        [name |-> "default", location |-> "San Francisco, CA",
                         keywords |-> "AI Engineer OR ML Engineer OR Research Engineer",
                         distance |-> 25, time_filter |-> "r7200",
                         refresh_interval |-> 7200, enabled |-> 1])

\* ---------------------------------------------------------------------------
\* BackgroundScraperService (background_scraper.py): worker tasks, the reload
\* loop and stop().  A task is "created" until the event loop runs it first
\* and "done" once it has returned or raised;
\* cancel is set by Task.cancel() and the task's next step is then the
\* delivery of CancelledError.  tasks holds the task objects that exist: a
\* task that is done and that nothing refers to any more is gone.
\* ---------------------------------------------------------------------------

Finished(task) == task.pc = "done"

Min(a, b) == IF a < b THEN a ELSE b

NewTask(profile_id, row) ==
    [profile_id |-> profile_id, refresh_interval |-> row.refresh_interval,
     pc |-> "created", cancel |-> FALSE, sleep_for |-> 0, outcome |-> "none"]

\* no task
NoTask == <<0, 0>>

\* the name of a task object created now for a profile: <<profile id, n>>,
\* n the least number no existing task of the profile bears
FreshTask(ts, profile_id) ==
    <<profile_id,
      CHOOSE n \in 1..(Cardinality(DOMAIN ts) + 1) :
          /\ <<profile_id, n>> \notin DOMAIN ts
          /\ \A m \in 1..(n - 1) : <<profile_id, m>> \in DOMAIN ts>>

\* the task objects still referred to: not done, or held by the task map,
\* by the await of _kill_worker or by the gather of stop()
Referenced(ts, wt, awaiting, waiting) ==
    [t \in {x \in DOMAIN ts : \/ ~Finished(ts[x])
                              \/ \E id \in DOMAIN wt : wt[id] = x
                              \/ x = awaiting
                              \/ x \in waiting} |-> ts[t]]

\* a spawn that does not look into the map first
_spawn_worker_Replace(wt, ts, profile_id, row) ==
    [wt |-> (profile_id :> FreshTask(ts, profile_id)) @@ wt,
     ts |-> (FreshTask(ts, profile_id) :> NewTask(profile_id, row)) @@ ts]

_spawn_worker(wt, ts, profile_id, row) ==
    IF profile_id \in DOMAIN wt
    THEN [wt |-> wt, ts |-> ts]
    ELSE [wt |-> (profile_id :> FreshTask(ts, profile_id)) @@ wt,
          ts |-> (FreshTask(ts, profile_id) :> NewTask(profile_id, row)) @@ ts]

\* the loops "for ...: if profile.enabled: await self._spawn_worker(profile)"
RECURSIVE SpawnAll(_, _, _, _)
SpawnAll(wt, ts, rows, ids) ==
    IF ids = {}
    THEN [wt |-> wt, ts |-> ts]
    ELSE LET id == CHOOSE x \in ids : TRUE
             sp == IF rows[id].enabled = 1
                   THEN _spawn_worker(wt, ts, id, rows[id])
                   ELSE [wt |-> wt, ts |-> ts]
         IN  SpawnAll(sp.wt, sp.ts, rows, ids \ {id})

\* the orders in which a loop may iterate over a set
Orders(set) ==
    {q \in [1..Cardinality(set) -> set] : \A x \in set : \E i \in DOMAIN q : q[i] = x}

\* a _kill_worker that cancels without awaiting the task
KillFrom_NoAwait(wt, ts, queue) ==
    [wt |-> [id \in DOMAIN wt \ SeqRange(queue) |-> wt[id]],
     ts |-> [t \in DOMAIN ts |->
                IF (\E id \in SeqRange(queue) \cap DOMAIN wt : wt[id] = t) /\ ~Finished(ts[t])
                THEN [ts[t] EXCEPT !.cancel = TRUE] ELSE ts[t]],
     queue |-> <<>>,
     awaiting |-> NoTask]

\* _kill_worker for the ids of queue in turn, up to the first "await task"
\* that has to wait: a task that is already done is awaited without suspending
RECURSIVE KillFrom(_, _, _)
KillFrom(wt, ts, queue) ==
    IF queue = <<>>
    THEN [wt |-> wt, ts |-> ts, queue |-> <<>>, awaiting |-> NoTask]
    ELSE LET profile_id == Head(queue)
         IN  IF profile_id \notin DOMAIN wt
             THEN KillFrom(wt, ts, Tail(queue))
             ELSE LET task == wt[profile_id]
                      popped == [id \in DOMAIN wt \ {profile_id} |-> wt[id]]
                  IN  IF Finished(ts[task])
                      THEN KillFrom(popped, ts, Tail(queue))
                      ELSE [wt |-> popped,
                            ts |-> [ts EXCEPT ![task].cancel = TRUE],
                            queue |-> Tail(queue),
                            awaiting |-> task]

\* a loop whose except clause is outside the while: an error ends the loop
EndIteration_ErrorEnds(rl, current_ids, last, shutdown) ==
    [pc |-> IF shutdown \/ last = "error" THEN "done" ELSE "sleeping",
     current |-> current_ids, queue |-> <<>>, awaiting |-> NoTask, last |-> last,
     changed |-> rl.changed, read |-> IF last = "ok" THEN {} ELSE rl.read]

\* the end of an iteration of _reload_profiles_loop and the loop's test
EndIteration(rl, current_ids, last, shutdown) ==
    [pc |-> IF shutdown THEN "done" ELSE "sleeping",
     current |-> current_ids, queue |-> <<>>, awaiting |-> NoTask, last |-> last,
     changed |-> rl.changed, read |-> IF last = "ok" THEN {} ELSE rl.read]

AfterKills(rl, k, current_ids, shutdown) ==
    IF k.awaiting = NoTask
    THEN EndIteration(rl, current_ids, "ok", shutdown)
    ELSE [rl EXCEPT !.pc = "killing", !.current = current_ids,
                    !.queue = k.queue, !.awaiting = k.awaiting]

\* ----- callers of the store: the profile tools -----

UpsertProfile ==
    \E profile \in ProfileInputs :
        LET r == upsert_profile(profiles, profile_seq, profile)
        IN  /\ r.seq <= MaxProfiles
            /\ profiles' = r.ps
            /\ profile_seq' = r.seq
            /\ UNCHANGED <<worker_tasks, tasks, shutdown_event, service, reload, stop>>
            /\ UNCHANGED <<store_vars, fetch_vars, pipeline_vars>>

\* delete_profile(profile_id, hard_delete): the profiles table, and with a
\* hard delete the foreign key's action on the jobs table
DeleteProfile ==
    \E profile_id \in DOMAIN profiles, hard_delete \in BOOLEAN :
        LET st == IF hard_delete THEN OnDeleteSetNull(Store, profile_id) ELSE Store
        IN  /\ NextDocid(st.fts) - 1 <= MaxRowid
            /\ profiles' = delete_profile(profiles, profile_id, hard_delete)
            /\ SetStore(st)
            /\ UNCHANGED <<change_seq, now, last_scraped, cache, op>>
            /\ UNCHANGED <<profile_seq, worker_tasks, tasks, shutdown_event, service,
                           reload, stop>>
            /\ UNCHANGED <<fetch_vars, pipeline_vars>>

\* ----- start() -----

Start ==
    /\ service = "constructed"
    /\ LET seeded == IF list_profiles(profiles, TRUE) = {}
                     THEN seed_default_profile(profiles, profile_seq)
                     ELSE [ps |-> profiles, seq |-> profile_seq, id |-> 0]
           sp == SpawnAll(worker_tasks, tasks, seeded.ps, list_profiles(seeded.ps, TRUE))
       IN  /\ profiles' = seeded.ps
           /\ profile_seq' = seeded.seq
           /\ worker_tasks' = sp.wt
           /\ tasks' = sp.ts
    /\ reload' = [reload EXCEPT !.pc = "created"]
    /\ service' = "started"
    /\ UNCHANGED <<shutdown_event, stop>>
    /\ UNCHANGED <<store_vars, fetch_vars, pipeline_vars>>

\* ----- _reload_profiles_loop -----

\* the loop's task runs first: the loop's test, then sleep(30)
ReloadBegin ==
    /\ reload.pc = "created"
    /\ reload' = [reload EXCEPT !.pc = IF shutdown_event THEN "done" ELSE "sleeping"]
    /\ UNCHANGED <<profiles, profile_seq, worker_tasks, tasks, shutdown_event, service, stop>>
    /\ UNCHANGED <<store_vars, fetch_vars, pipeline_vars>>

\* sleep(30) is over: read the store, spawn, then kill up to the first wait
ReloadWake ==
    /\ reload.pc = "sleeping"
    /\ LET current_ids == list_profiles(profiles, TRUE)
           running_ids == DOMAIN worker_tasks
           sp == SpawnAll(worker_tasks, tasks, profiles, current_ids \ running_ids)
           disabled == {id \in current_ids \cap running_ids : profiles[id].enabled # 1}
       IN  \E q1 \in Orders(running_ids \ current_ids), q2 \in Orders(disabled) :
               LET k == KillFrom(sp.wt, sp.ts, q1 \o q2)
               IN  /\ worker_tasks' = k.wt
                   /\ tasks' = Referenced(k.ts, k.wt, k.awaiting, stop.waiting)
                   /\ reload' = AfterKills([reload EXCEPT !.read = reload.changed,
                                                          !.changed = {}],
                                            k, current_ids, shutdown_event)
    /\ UNCHANGED <<profiles, profile_seq, shutdown_event, service, stop>>
    /\ UNCHANGED <<store_vars, fetch_vars, pipeline_vars>>

\* sleep(30) is over and list_profiles raises: logged, next iteration
ReloadError ==
    /\ reload.pc = "sleeping"
    /\ reload' = EndIteration(reload, reload.current, "error", shutdown_event)
    /\ UNCHANGED <<profiles, profile_seq, worker_tasks, tasks, shutdown_event, service, stop>>
    /\ UNCHANGED <<store_vars, fetch_vars, pipeline_vars>>

\* the task awaited in _kill_worker is done: the remaining kills
ReloadKillResume ==
    /\ reload.pc = "killing"
    /\ Finished(tasks[reload.awaiting])
    /\ LET k == KillFrom(worker_tasks, tasks, reload.queue)
       IN  /\ worker_tasks' = k.wt
           /\ tasks' = Referenced(k.ts, k.wt, k.awaiting, stop.waiting)
           /\ reload' = AfterKills(reload, k, reload.current, shutdown_event)
    /\ UNCHANGED <<profiles, profile_seq, shutdown_event, service, stop>>
    /\ UNCHANGED <<store_vars, fetch_vars, pipeline_vars>>

\* ----- _run_profile_worker -----

\* a backoff that sleeps the whole refresh interval
BackoffSleep_Uncapped(refresh_interval) == refresh_interval

\* the sleep a worker takes after a cycle that raised
BackoffSleep(refresh_interval) == Min(refresh_interval, 300)

\* the loop's test: leave when shutdown_event is set, else the next cycle
LoopTest(task, shutdown) ==
    [task EXCEPT !.pc = IF shutdown THEN "done" ELSE "scraping",
                 !.sleep_for = 0, !.outcome = "none"]

WorkerSteps(t) ==
    /\ UNCHANGED <<profile_seq, worker_tasks, shutdown_event, service, reload, stop>>
    /\ UNCHANGED <<store_vars, fetch_vars, pipeline_vars>>

WorkerStart(t) ==
    /\ tasks[t].pc = "created"
    /\ ~tasks[t].cancel
    /\ tasks' = Referenced([tasks EXCEPT ![t] = LoopTest(@, shutdown_event)],
                            worker_tasks, reload.awaiting, stop.waiting)
    /\ UNCHANGED profiles
    /\ WorkerSteps(t)

\* a worker that starts its next cycle without the sleep
ScrapeOk_NoSleep(t) ==
    /\ tasks[t].pc = "scraping"
    /\ ~tasks[t].cancel
    /\ tasks[t].outcome = "none"
    /\ profiles' = update_profile_last_run(profiles, tasks[t].profile_id)
    /\ tasks' = [tasks EXCEPT ![t].outcome = "ok"]
    /\ WorkerSteps(t)

\* the cycle returned a count: update_profile_last_run, sleep(refresh_interval)
ScrapeOk(t) ==
    /\ tasks[t].pc = "scraping"
    /\ ~tasks[t].cancel
    /\ profiles' = update_profile_last_run(profiles, tasks[t].profile_id)
    /\ tasks' = [tasks EXCEPT ![t].pc = "sleeping", ![t].outcome = "ok",
                              ![t].sleep_for = tasks[t].refresh_interval]
    /\ WorkerSteps(t)

\* the cycle, or update_profile_last_run, raised an Exception
ScrapeError(t) ==
    /\ tasks[t].pc = "scraping"
    /\ ~tasks[t].cancel
    /\ tasks' = [tasks EXCEPT ![t].pc = "backoff", ![t].outcome = "error",
                              ![t].sleep_for = BackoffSleep(tasks[t].refresh_interval)]
    /\ UNCHANGED profiles
    /\ WorkerSteps(t)

WorkerWake(t) ==
    /\ tasks[t].pc \in {"sleeping", "backoff"}
    /\ ~tasks[t].cancel
    /\ tasks' = Referenced([tasks EXCEPT ![t] = LoopTest(@, shutdown_event)],
                            worker_tasks, reload.awaiting, stop.waiting)
    /\ UNCHANGED profiles
    /\ WorkerSteps(t)

\* CancelledError is delivered: caught inside the try (break), raised
\* through the except handler's sleep, or the task never ran; the task is
\* done in each case
WorkerCancelled(t) ==
    /\ tasks[t].cancel
    /\ ~Finished(tasks[t])
    /\ tasks' = Referenced([tasks EXCEPT ![t].pc = "done",
                                         ![t].sleep_for = 0, ![t].outcome = "none"],
                            worker_tasks, reload.awaiting, stop.waiting)
    /\ UNCHANGED profiles
    /\ WorkerSteps(t)

\* ----- stop() -----

Stop ==
    /\ service = "started"
    /\ stop.pc = "idle"
    /\ shutdown_event' = TRUE
    /\ LET waited == {worker_tasks[id] : id \in DOMAIN worker_tasks}
       IN  /\ tasks' = [t \in DOMAIN tasks |->
                          IF t \in waited /\ ~Finished(tasks[t])
                          THEN [tasks[t] EXCEPT !.cancel = TRUE] ELSE tasks[t]]
           /\ stop' = IF waited = {}
                      THEN [pc |-> "returned", waiting |-> {}]
                      ELSE [pc |-> "waiting", waiting |-> waited]
    /\ UNCHANGED <<profiles, profile_seq, worker_tasks, service, reload>>
    /\ UNCHANGED <<store_vars, fetch_vars, pipeline_vars>>

\* gather() is done once every task it was given is done
StopReturn ==
    /\ stop.pc = "waiting"
    /\ \A t \in stop.waiting : Finished(tasks[t])
    /\ stop' = [pc |-> "returned", waiting |-> {}]
    /\ tasks' = Referenced(tasks, worker_tasks, reload.awaiting, {})
    /\ UNCHANGED <<profiles, profile_seq, worker_tasks, shutdown_event, service, reload>>
    /\ UNCHANGED <<store_vars, fetch_vars, pipeline_vars>>

InitSched == InitStore

NextSched ==
    \/ UpsertProfile
    \/ DeleteProfile
    \/ Start
    \/ ReloadBegin
    \/ ReloadWake
    \/ ReloadError
    \/ ReloadKillResume
    \/ \E t \in DOMAIN tasks : WorkerStart(t)
    \/ \E t \in DOMAIN tasks : ScrapeOk(t)
    \/ \E t \in DOMAIN tasks : ScrapeError(t)
    \/ \E t \in DOMAIN tasks : WorkerWake(t)
    \/ \E t \in DOMAIN tasks : WorkerCancelled(t)
    \/ Stop
    \/ StopReturn

SpecSched == InitSched /\ [][NextSched]_vars

\* ----- the scheduler with the tool that updates a profile (main.py) -----

\* the refresh intervals update_scraping_profile is called with
NewIntervals == {3600, 86400}

\* update_scraping_profile(profile_id, refresh_interval=...): get_profile,
\* set the field, upsert_profile
UpdateProfile ==
    \E profile_id \in DOMAIN profiles, refresh_interval \in NewIntervals :
        /\ profiles[profile_id].refresh_interval # refresh_interval
        /\ profiles' = [profiles EXCEPT ![profile_id].refresh_interval = refresh_interval]
        /\ reload' = [reload EXCEPT !.changed = @ \cup {profile_id}]
        /\ UNCHANGED <<profile_seq, worker_tasks, tasks, shutdown_event, service, stop>>
        /\ UNCHANGED <<store_vars, fetch_vars, pipeline_vars>>

\* the service over the seeded store, its profile updated as it runs
NextUpdate ==
    \/ Start
    \/ UpdateProfile
    \/ ReloadBegin
    \/ ReloadWake
    \/ ReloadError
    \/ \E t \in DOMAIN tasks : WorkerStart(t)
    \/ \E t \in DOMAIN tasks : ScrapeOk(t)
    \/ \E t \in DOMAIN tasks : ScrapeError(t)
    \/ \E t \in DOMAIN tasks : WorkerWake(t)
    \/ \E t \in DOMAIN tasks : WorkerCancelled(t)
    \/ Stop
    \/ StopReturn

SpecUpdate == InitSched /\ [][NextUpdate]_vars

\* ----- _spawn_worker called on its own, as the service's tests do -----

\* await service._spawn_worker(profile) for a stored profile; op keeps the
\* profile id and the task the map held for it before the call
SpawnWorker ==
    \E profile_id \in DOMAIN profiles :
        LET sp == _spawn_worker(worker_tasks, tasks, profile_id, profiles[profile_id])
        IN  /\ op.name = "none"
            /\ worker_tasks' = sp.wt
            /\ tasks' = sp.ts
            /\ op' = [NoOp EXCEPT !.name = "spawn", !.profile = profile_id,
                                  !.arg = IF profile_id \in DOMAIN worker_tasks
                                          THEN <<worker_tasks[profile_id]>> ELSE <<>>]
            /\ UNCHANGED <<profiles, profile_seq, shutdown_event, service, reload, stop>>
            /\ UNCHANGED <<jobs, jobs_fts, job_changes, change_seq, now, last_scraped, cache, applications>>
            /\ UNCHANGED <<fetch_vars, pipeline_vars>>

NextSpawn ==
    \/ UpsertProfile
    \/ Start
    \/ SpawnWorker
    \/ Return
    \/ \E t \in DOMAIN tasks : WorkerStart(t)
    \/ \E t \in DOMAIN tasks : ScrapeOk(t)
    \/ \E t \in DOMAIN tasks : ScrapeError(t)
    \/ \E t \in DOMAIN tasks : WorkerWake(t)

SpecSpawn == InitSched /\ [][NextSpawn]_vars

\* ----- upsert_jobs with records that carry a normalized name -----

\* another company a record is renamed to
CdLlc == <<"C", "d", " ", "L", "L", "C">>

\* the caller changes the company of the records it has upserted (the dicts
\* upsert_jobs completed in place) and upserts them again
UpsertRenamed ==
    /\ op.name \in {"upsert_jobs", "upsert_renamed"}
    /\ ~op.raised
    /\ op.batch # <<>>
    /\ NextDocid(jobs_fts) - 1 + Len(op.batch) <= MaxRowid
    /\ \E company \in {AbInc, CdLlc} :
          LET renamed == [i \in DOMAIN op.batch |->
                             [op.batch[i] EXCEPT !["company"] = company]]
              r == upsert_jobs(Store, renamed, now)
          IN /\ SetStore(r.st)
             /\ op' = [NoOp EXCEPT !.name = "upsert_renamed",
                                   !.batch = r.batch, !.raised = r.raised,
                                   !.count = r.count, !.upserted = TRUE]
    /\ UNCHANGED <<change_seq, now, last_scraped, cache>>
    /\ UNCHANGED service_vars

NextNormalize ==
    \/ Tick
    \/ UpsertJobs
    \/ UpsertRenamed
    \/ Return

SpecNormalize == InitStore /\ [][NextNormalize]_vars

\* ----- the applications table (db.py) -----

\* the statuses the docstrings and the tool layer name
valid_statuses == {"applied", "interviewing", "rejected", "offered", "accepted"}

\* the statuses and notes the store's callers pass
Statuses == {"applied", "interviewing", "ghosted"}
Notes == {"", "n"}

\* the positions of the application rows of a job
ApplicationsOf(apps, job_id) == {i \in DOMAIN apps : apps[i].job_id = job_id}

\* a mark_job_applied whose INSERT has no ON CONFLICT clause and no UNIQUE
\* constraint to meet
mark_job_applied_PlainInsert(jt, apps, job_id, notes) ==
    IF get_job(jt, job_id) = None
    THEN [apps |-> apps, ok |-> FALSE]
    ELSE [apps |-> Append(apps, [job_id |-> job_id, status |-> "applied",
                                 notes |-> notes]),
          ok |-> TRUE]

\* mark_job_applied(job_id, notes): False when get_job finds no job; else
\* INSERT ... ON CONFLICT(job_id) DO UPDATE SET status = 'applied', notes
mark_job_applied(jt, apps, job_id, notes) ==
    IF get_job(jt, job_id) = None
    THEN [apps |-> apps, ok |-> FALSE]
    ELSE IF ApplicationsOf(apps, job_id) = {}
    THEN [apps |-> Append(apps, [job_id |-> job_id, status |-> "applied",
                                 notes |-> notes]),
          ok |-> TRUE]
    ELSE [apps |-> [i \in DOMAIN apps |->
                      IF apps[i].job_id = job_id
                      THEN [apps[i] EXCEPT !.status = "applied", !.notes = notes]
                      ELSE apps[i]],
          ok |-> TRUE]

\* update_application_status(job_id, status, notes): False when the job has
\* no application row; else UPDATE ... SET status = ?, notes = ?
update_application_status(apps, job_id, status, notes) ==
    IF ApplicationsOf(apps, job_id) = {}
    THEN [apps |-> apps, ok |-> FALSE]
    ELSE [apps |-> [i \in DOMAIN apps |->
                      IF apps[i].job_id = job_id
                      THEN [apps[i] EXCEPT !.status = status, !.notes = notes]
                      ELSE apps[i]],
          ok |-> TRUE]

\* a caller of the store upserts one job
UpsertJob ==
    \E id \in JobIds :
        /\ op.name = "none"
        /\ NextDocid(jobs_fts) <= MaxRowid
        /\ LET r == upsert_jobs(Store, <<[job_id |-> id, title |-> "T", company |-> AbInc,
                                          scraped_at |-> now, skills |-> S("[]"),
                                          number_of_applicants |-> S("50"),
                                          raw_description |-> S("D1")]>>, now)
           IN /\ SetStore(r.st)
              /\ op' = [NoOp EXCEPT !.name = "upsert_jobs", !.raised = r.raised,
                                    !.count = r.count, !.upserted = TRUE]
        /\ UNCHANGED <<change_seq, now, last_scraped, cache>>
        /\ UNCHANGED service_vars

\* op.arg keeps the job id and the value returned
MarkJobApplied ==
    \E job_id \in JobIds, notes \in Notes :
        LET r == mark_job_applied(jobs, applications, job_id, notes)
        IN /\ op.name = "none"
           /\ applications' = r.apps
           /\ op' = [NoOp EXCEPT !.name = "mark_job_applied", !.arg = <<job_id, r.ok>>]
           /\ UNCHANGED <<jobs, jobs_fts, job_changes, change_seq, now, last_scraped, cache>>
           /\ UNCHANGED service_vars

UpdateApplicationStatus ==
    \E job_id \in JobIds, status \in Statuses, notes \in Notes :
        LET r == update_application_status(applications, job_id, status, notes)
        IN /\ op.name = "none"
           /\ applications' = r.apps
           /\ op' = [NoOp EXCEPT !.name = "update_application_status",
                                 !.arg = <<job_id, r.ok>>]
           /\ UNCHANGED <<jobs, jobs_fts, job_changes, change_seq, now, last_scraped, cache>>
           /\ UNCHANGED service_vars

NextApplications ==
    \/ UpsertJob
    \/ MarkJobApplied
    \/ UpdateApplicationStatus
    \/ Return

SpecApplications == InitStore /\ [][NextApplications]_vars

\* ----- the profile operations of the store called on their own -----

\* op.arg keeps the dictionary passed and the id returned
UpsertProfileCall ==
    \E profile \in ProfileInputs :
        LET r == upsert_profile(profiles, profile_seq, profile)
        IN  /\ op.name = "none"
            /\ r.seq <= MaxProfiles
            /\ profiles' = r.ps
            /\ profile_seq' = r.seq
            /\ op' = [NoOp EXCEPT !.name = "upsert_profile", !.arg = <<profile, r.id>>]
            /\ UNCHANGED <<jobs, jobs_fts, job_changes, change_seq, now, last_scraped, cache,
                           applications>>
            /\ UNCHANGED <<worker_tasks, tasks, shutdown_event, service, reload, stop>>
            /\ UNCHANGED <<fetch_vars, pipeline_vars>>

\* op.arg keeps the id returned, 0 for None
SeedDefaultProfile ==
    LET r == seed_default_profile(profiles, profile_seq)
    IN  /\ op.name = "none"
        /\ r.seq <= MaxProfiles
        /\ profiles' = r.ps
        /\ profile_seq' = r.seq
        /\ op' = [NoOp EXCEPT !.name = "seed_default_profile", !.arg = <<r.id>>]
        /\ UNCHANGED <<jobs, jobs_fts, job_changes, change_seq, now, last_scraped, cache,
                       applications>>
        /\ UNCHANGED <<worker_tasks, tasks, shutdown_event, service, reload, stop>>
        /\ UNCHANGED <<fetch_vars, pipeline_vars>>

\* a worker's update_profile_last_run(profile.id, now)
UpdateProfileLastRun ==
    \E profile_id \in DOMAIN profiles :
        /\ op.name = "none"
        /\ profiles' = update_profile_last_run(profiles, profile_id)
        /\ op' = [NoOp EXCEPT !.name = "update_profile_last_run", !.profile = profile_id]
        /\ UNCHANGED <<jobs, jobs_fts, job_changes, change_seq, now, last_scraped, cache,
                       applications>>
        /\ UNCHANGED <<profile_seq, worker_tasks, tasks, shutdown_event, service,
                       reload, stop>>
        /\ UNCHANGED <<fetch_vars, pipeline_vars>>

\* a job scraped for a stored profile is upserted
UpsertJobFor ==
    \E id \in JobIds, profile_id \in DOMAIN profiles :
        /\ op.name = "none"
        /\ NextDocid(jobs_fts) <= MaxRowid
        /\ LET r == upsert_jobs(Store,
                                <<[job_id |-> id, title |-> "T", company |-> AbInc,
                                   scraped_at |-> now, skills |-> S("[]"),
                                   number_of_applicants |-> S("50"),
                                   raw_description |-> S("D1"),
                                   profile_id |-> <<"int", profile_id>>]>>, now)
           IN /\ SetStore(r.st)
              /\ op' = [NoOp EXCEPT !.name = "upsert_jobs", !.raised = r.raised,
                                    !.count = r.count, !.upserted = TRUE]
        /\ UNCHANGED <<change_seq, now, last_scraped, cache>>
        /\ UNCHANGED service_vars

\* delete_profile(profile_id, hard_delete) for any id; op.arg keeps the
\* arguments
DeleteProfileCall ==
    \E profile_id \in ProfileIds, hard_delete \in BOOLEAN :
        LET st == IF hard_delete THEN OnDeleteSetNull(Store, profile_id) ELSE Store
        IN  /\ op.name = "none"
            /\ NextDocid(st.fts) - 1 <= MaxRowid
            /\ profiles' = delete_profile(profiles, profile_id, hard_delete)
            /\ SetStore(st)
            /\ op' = [NoOp EXCEPT !.name = "delete_profile",
                                  !.arg = <<profile_id, hard_delete>>]
            /\ UNCHANGED <<change_seq, now, last_scraped, cache>>
            /\ UNCHANGED <<profile_seq, worker_tasks, tasks, shutdown_event, service,
                           reload, stop>>
            /\ UNCHANGED <<fetch_vars, pipeline_vars>>

NextProfiles ==
    \/ UpsertProfileCall
    \/ SeedDefaultProfile
    \/ UpdateProfileLastRun
    \/ UpsertJobFor
    \/ DeleteProfileCall
    \/ Return

SpecProfiles == InitStore /\ [][NextProfiles]_vars

\* ----- the maintenance call of the tests: db.rebuild_fts() -----

\* JobDatabase defines no attribute rebuild_fts: the call raises
\* AttributeError before any statement reaches the database
RebuildFts ==
    /\ op.name = "none"
    /\ op' = [NoOp EXCEPT !.name = "rebuild_fts", !.raised = TRUE]
    /\ UNCHANGED <<jobs, jobs_fts, job_changes, change_seq, now, last_scraped, cache,
                   applications>>
    /\ UNCHANGED service_vars

NextRebuild ==
    \/ Tick
    \/ UpsertJob
    \/ DeleteOldJobs
    \/ RebuildFts
    \/ Return

SpecRebuild == InitStore /\ [][NextRebuild]_vars

\* ----- the file-backed cache (cache.py) -----

\* the items callers put: the key is the job id, a non-empty string
Titles == {"Engineer", "Senior Engineer"}
CacheItems == {[job_id |-> k, title |-> t] : k \in JobIds, t \in Titles}

CacheSteps ==
    /\ UNCHANGED <<jobs, jobs_fts, job_changes, change_seq, now, last_scraped,
                   applications>>
    /\ UNCHANGED service_vars

\* put(item, overwrite); op.arg keeps the arguments and the value returned
Put ==
    \E item \in CacheItems, overwrite \in BOOLEAN :
        LET r == put(cache, item, overwrite)
        IN  /\ op.name = "none"
            /\ cache.flush = "idle"
            /\ cache' = r.c
            /\ op' = [NoOp EXCEPT !.name = "put", !.arg = <<item, overwrite, r.ret>>]
            /\ CacheSteps

\* put_batch(items, overwrite) up to its return or to the flush() it calls
PutBatch ==
    \E items \in SeqsUpTo(CacheItems, MaxBatch), overwrite \in BOOLEAN :
        LET r == PutAll(cache, items, overwrite)
        IN  /\ op.name = "none"
            /\ cache.flush = "idle"
            /\ IF r.c._needs_flush
               THEN /\ cache' = [r.c EXCEPT !.flush = "opening", !.caller = "put_batch",
                                            !.count = r.count]
                    /\ op' = op
               ELSE /\ cache' = r.c
                    /\ op' = [NoOp EXCEPT !.name = "put_batch", !.count = r.count]
            /\ CacheSteps

\* flush() called by the user: nothing to do unless the flag is set
Flush ==
    /\ op.name = "none"
    /\ cache.flush = "idle"
    /\ IF cache._needs_flush
       THEN /\ cache' = [cache EXCEPT !.flush = "opening", !.caller = "flush"]
            /\ op' = op
       ELSE /\ cache' = cache
            /\ op' = [NoOp EXCEPT !.name = "flush", !.arg = <<"nothing to flush">>]
    /\ CacheSteps

FlushOpen ==
    /\ cache.flush = "opening"
    /\ cache' = flush_open(cache)
    /\ op' = op
    /\ CacheSteps

FlushWrite ==
    /\ cache.flush = "writing"
    /\ Len(cache.temp_file) < Len(cache._cache)
    /\ cache' = flush_write(cache)
    /\ op' = op
    /\ CacheSteps

\* every value is written: the rename, and the call returns
FlushReplace ==
    /\ cache.flush = "writing"
    /\ Len(cache.temp_file) = Len(cache._cache)
    /\ cache' = [flush_replace(cache) EXCEPT !.count = 0]
    /\ op' = [NoOp EXCEPT !.name = cache.caller, !.count = cache.count,
                          !.arg = <<"rewritten">>]
    /\ CacheSteps

\* the open, a write or the rename raises: the except clause, and the call
\* raises
FlushExcept ==
    /\ cache.flush \in {"opening", "writing"}
    /\ cache' = [flush_except(cache) EXCEPT !.count = 0]
    /\ op' = [NoOp EXCEPT !.name = cache.caller, !.raised = TRUE]
    /\ CacheSteps

NextCache ==
    \/ Put
    \/ PutBatch
    \/ Flush
    \/ FlushOpen
    \/ FlushWrite
    \/ FlushReplace
    \/ FlushExcept
    \/ Return

SpecCache == InitStore /\ [][NextCache]_vars

\* ----- the parsers (scraper.py) -----

\* Texts are sequences of characters.  An element of the parsed markup is
\* its text, and None when the selector matches nothing.
TitleText == <<"M", "L">>
SalaryText == <<"$", "1", "2", "0", "K">>
DescriptionText == <<"P", "y", "t", "h", "o", "n">>
CompanyTexts == {<<"A", "c", "m", "e">>, <<"A", "c", "m", "e", " ", "I", "n", "c">>}

\* get_text(strip=True) if el else "N/A"
TextOr(el) == IF el # None THEN el ELSE NA

\* the extraction functions on the texts above
extract_salary_structured(salary_text) ==
    IF salary_text = NA
    THEN [min |-> None, max |-> None, currency |-> "USD", equity_offered |-> FALSE]
    ELSE [min |-> <<"int", 120000>>, max |-> <<"int", 120000>>, currency |-> "USD",
          equity_offered |-> FALSE]

extract_skills(description) == IF description = NA THEN <<>> ELSE <<DescriptionText>>

\* a listing card: NoCard when there is no card element (None), else its
\* urn, title and company elements
NoCard == [card |-> "None"]

Cards ==
    {NoCard} \cup [urn : {None, <<"other">>} \cup {<<"jobPosting", j>> : j \in JobIds},
                 title : {None, TitleText},
                 company : {None} \cup CompanyTexts]

SentinelSummary == [job_id |-> "N/A", title |-> NA, company |-> NA]

parse_search_card(card) ==
    IF card = NoCard
    THEN SentinelSummary
    ELSE [job_id |-> IF card.urn # None /\ card.urn[1] = "jobPosting"
                     THEN card.urn[2] ELSE "N/A",
          title |-> TextOr(card.title),
          company |-> TextOr(card.company)]

\* a detail page: what BeautifulSoup(html, "html.parser") does with the
\* markup (it parses it, or rejects it and raises, or yields a tree on which
\* a later call raises), and the elements of the tree
DetailPages ==
    [markup : {"parsed", "rejected", "raising"},
     title : {None, TitleText},
     company : {None} \cup CompanyTexts,
     salary : {None, SalaryText},
     description : {None, DescriptionText}]

SentinelJobDetail(job_id) ==
    [job_id |-> job_id, title |-> NA, company |-> NA, salary |-> NA,
     skills |-> <<>>, salary_min |-> None, salary_max |-> None,
     salary_currency |-> "USD", equity_offered |-> FALSE, easy_apply |-> FALSE,
     normalized_company_name |-> NA]

\* the body of the try statement
DetailOf(html, job_id) ==
    LET salary_data == extract_salary_structured(TextOr(html.salary))
    IN  [job_id |-> job_id,
         title |-> TextOr(html.title),
         company |-> TextOr(html.company),
         salary |-> TextOr(html.salary),
         skills |-> extract_skills(TextOr(html.description)),
         salary_min |-> salary_data.min,
         salary_max |-> salary_data.max,
         salary_currency |-> salary_data.currency,
         equity_offered |-> salary_data.equity_offered,
         easy_apply |-> FALSE,
         normalized_company_name |-> normalize_company_name(TextOr(html.company))]

\* [raised, detail]: the soup is built before the try statement
parse_job_detail_page_html(html, job_id) ==
    IF html.markup = "rejected" THEN [raised |-> TRUE, detail |-> None]
    ELSE IF html.markup = "raising"
    THEN [raised |-> FALSE, detail |-> SentinelJobDetail(job_id)]
    ELSE [raised |-> FALSE, detail |-> DetailOf(html, job_id)]

ParseSteps ==
    /\ UNCHANGED <<jobs, jobs_fts, job_changes, change_seq, now, last_scraped, cache,
                   applications>>
    /\ UNCHANGED service_vars

ParseSearchCard ==
    \E card \in Cards :
        /\ op.name = "none"
        /\ op' = [NoOp EXCEPT !.name = "parse_search_card",
                              !.arg = <<card, parse_search_card(card)>>]
        /\ ParseSteps

ParseJobDetailPage ==
    \E html \in DetailPages, job_id \in JobIds :
        LET r == parse_job_detail_page_html(html, job_id)
        IN  /\ op.name = "none"
            /\ op' = [NoOp EXCEPT !.name = "parse_job_detail_page",
                                  !.arg = <<html, job_id, r.detail>>,
                                  !.raised = r.raised]
            /\ ParseSteps

NextParse ==
    \/ ParseSearchCard
    \/ ParseJobDetailPage
    \/ Return

SpecParse == InitStore /\ [][NextParse]_vars

\* ----- upsert_profile with dictionaries that omit optional keys -----

OptionalKeys == {"distance", "time_filter", "refresh_interval", "enabled"}

Restrict(f, keys) == [k \in keys |-> f[k]]

\* the dictionaries of ProfileInputs and of the tests: name, location and
\* keywords (here new keywords) with any of the optional keys
PartialProfileInputs ==
    {Restrict([p EXCEPT !.keywords = kw], {"name", "location", "keywords"} \cup keys) :
        p \in ProfileInputs, kw \in {"ML Engineer", "AI Engineer"},
        keys \in SUBSET OptionalKeys}

UpsertPartialProfile ==
    \E profile \in PartialProfileInputs :
        LET r == upsert_profile(profiles, profile_seq, profile)
        IN  /\ op.name = "none"
            /\ r.seq <= MaxProfiles
            /\ profiles' = r.ps
            /\ profile_seq' = r.seq
            /\ op' = [NoOp EXCEPT !.name = "upsert_profile", !.arg = <<profile, r.id>>]
            /\ UNCHANGED <<jobs, jobs_fts, job_changes, change_seq, now, last_scraped, cache,
                           applications>>
            /\ UNCHANGED <<worker_tasks, tasks, shutdown_event, service, reload, stop>>
            /\ UNCHANGED <<fetch_vars, pipeline_vars>>

NextPartial ==
    \/ UpsertPartialProfile
    \/ DeleteProfileCall
    \/ Return

SpecPartial == InitStore /\ [][NextPartial]_vars

\* ----- the reload loop under a fair event loop -----

\* the service over the seeded store, its profile disabled or deleted as it
\* runs
NextReload ==
    \/ DeleteProfile
    \/ Start
    \/ ReloadBegin
    \/ ReloadWake
    \/ ReloadError
    \/ ReloadKillResume
    \/ \E t \in DOMAIN tasks : WorkerStart(t)
    \/ \E t \in DOMAIN tasks : ScrapeOk(t)
    \/ \E t \in DOMAIN tasks : ScrapeError(t)
    \/ \E t \in DOMAIN tasks : WorkerWake(t)
    \/ \E t \in DOMAIN tasks : WorkerCancelled(t)
    \/ Stop
    \/ StopReturn

\* the event loop runs the reload task when its sleep(30) is over
SpecReload ==
    InitSched /\ [][NextReload]_vars /\ WF_vars(ReloadWake \/ ReloadError)

\* ----- _kill_worker called on its own, as the service's tests do -----

\* await service._kill_worker(profile_id) up to its return or to the
\* "await task" that has to wait; op keeps the id, the task the map held for
\* it before the call and that task's position when it was cancelled
KillWorker ==
    \E profile_id \in ProfileIds :
        LET k == KillFrom(worker_tasks, tasks, <<profile_id>>)
            had == profile_id \in DOMAIN worker_tasks
        IN  /\ op.name = "none"
            /\ worker_tasks' = k.wt
            /\ tasks' = Referenced(k.ts, k.wt, k.awaiting, {})
            /\ op' = [NoOp EXCEPT
                        !.name = IF k.awaiting = NoTask THEN "kill" ELSE "kill_awaiting",
                        !.profile = profile_id,
                        !.arg = IF had THEN <<worker_tasks[profile_id]>> ELSE <<>>,
                        !.calls = IF had THEN <<tasks[worker_tasks[profile_id]].pc>>
                                  ELSE <<>>]
            /\ UNCHANGED <<profiles, profile_seq, shutdown_event, service, reload, stop>>
            /\ UNCHANGED <<jobs, jobs_fts, job_changes, change_seq, now, last_scraped, cache, applications>>
            /\ UNCHANGED <<fetch_vars, pipeline_vars>>

\* the awaited task is done: "await task" returns when the worker caught the
\* CancelledError inside its try and broke out of its loop, and raises
\* CancelledError when the task never ran or was cancelled in the sleep of
\* its except handler; "except asyncio.CancelledError: pass" lets only
\* another exception out of _kill_worker
KillReturn ==
    /\ op.name = "kill_awaiting"
    /\ op.arg[1] \notin DOMAIN tasks
    /\ LET exc == IF op.calls[1] \in {"created", "backoff"}
                  THEN "CancelledError" ELSE "none"
       IN  op' = [op EXCEPT !.name = "kill",
                            !.raised = exc \notin {"none", "CancelledError"}]
    /\ UNCHANGED <<jobs, jobs_fts, job_changes, change_seq, now, last_scraped, cache, applications>>
    /\ UNCHANGED <<sched_vars, fetch_vars, pipeline_vars>>

NextKill ==
    \/ UpsertProfile
    \/ Start
    \/ KillWorker
    \/ KillReturn
    \/ Return
    \/ \E t \in DOMAIN tasks : WorkerStart(t)
    \/ \E t \in DOMAIN tasks : ScrapeOk(t)
    \/ \E t \in DOMAIN tasks : ScrapeError(t)
    \/ \E t \in DOMAIN tasks : WorkerWake(t)
    \/ \E t \in DOMAIN tasks : WorkerCancelled(t)

SpecKill == InitSched /\ [][NextKill]_vars

\* ---------------------------------------------------------------------------
\* The detail stage of the workers' cycles (scraper.py): fetch_job_details
\* gathers one fetch_single_job_detail per job id; each goes through
\* request_with_backoff with the service's job semaphore.  fetches[w] holds
\* the fetches of the cycle that worker w is running, <<>> outside the stage.
\* ---------------------------------------------------------------------------

MaxFetches == 2

max_retries == 3

\* what client.get and raise_for_status can come to
Responses == {"ok", "rate_limited", "status_error", "request_error"}

\* an always open semaphore
CanAcquire_Always(value) == TRUE

\* Semaphore.acquire goes on at once when a permit is left
CanAcquire(value) == value > 0

Holding(fetch) == fetch.pc \in {"jitter", "get", "backoff"}

FetchSteps(w) ==
    /\ UNCHANGED <<store_vars, sched_vars, pipeline_vars>>

\* fetch_job_details(client, job_ids, self.job_semaphore) with n job ids
BeginFetch(w) ==
    /\ fetches[w] = <<>>
    /\ \E n \in 1..MaxFetches :
          fetches' = [fetches EXCEPT ![w] = [i \in 1..n |-> [pc |-> "acquire", attempt |-> 0]]]
    /\ UNCHANGED job_semaphore
    /\ FetchSteps(w)

\* "async with semaphore" is entered
Acquire(w, i) ==
    /\ fetches[w][i].pc = "acquire"
    /\ CanAcquire(job_semaphore)
    /\ job_semaphore' = job_semaphore - 1
    /\ fetches' = [fetches EXCEPT ![w][i].pc = "jitter"]
    /\ FetchSteps(w)

\* the random delay is over: the first client.get
JitterDone(w, i) ==
    /\ fetches[w][i].pc = "jitter"
    /\ fetches' = [fetches EXCEPT ![w][i].pc = "get"]
    /\ UNCHANGED job_semaphore
    /\ FetchSteps(w)

\* client.get is over: return the response, retry after a delay, or raise
Response(w, i) ==
    /\ fetches[w][i].pc = "get"
    /\ \E response \in Responses :
          IF response # "ok" /\ fetches[w][i].attempt < max_retries - 1
          THEN /\ fetches' = [fetches EXCEPT ![w][i].pc = "backoff"]
               /\ UNCHANGED job_semaphore
          ELSE /\ fetches' = [fetches EXCEPT
                                ![w][i].pc = IF response = "ok" THEN "detail" ELSE "sentinel"]
               /\ job_semaphore' = job_semaphore + 1
    /\ FetchSteps(w)

\* the delay before a retry is over: the next attempt
BackoffDone(w, i) ==
    /\ fetches[w][i].pc = "backoff"
    /\ fetches' = [fetches EXCEPT ![w][i].pc = "get", ![w][i].attempt = @ + 1]
    /\ UNCHANGED job_semaphore
    /\ FetchSteps(w)

\* gather returns once every fetch has returned its JobDetail
EndFetch(w) ==
    /\ fetches[w] # <<>>
    /\ \A i \in DOMAIN fetches[w] : fetches[w][i].pc \in {"detail", "sentinel"}
    /\ fetches' = [fetches EXCEPT ![w] = <<>>]
    /\ UNCHANGED job_semaphore
    /\ FetchSteps(w)

\* a cancellation that leaves the permits of the cancelled fetches taken
CancelFetch_NoRelease(w) ==
    /\ fetches[w] # <<>>
    /\ fetches' = [fetches EXCEPT ![w] = <<>>]
    /\ UNCHANGED job_semaphore
    /\ FetchSteps(w)

\* the worker is cancelled in the detail stage: gather cancels its fetches,
\* and those inside "async with semaphore" release their permit
CancelFetch(w) ==
    /\ fetches[w] # <<>>
    /\ job_semaphore' = job_semaphore
                        + Cardinality({i \in DOMAIN fetches[w] : Holding(fetches[w][i])})
    /\ fetches' = [fetches EXCEPT ![w] = <<>>]
    /\ FetchSteps(w)

InitFetch == InitStore

NextFetch ==
    \/ \E w \in ProfileIds : BeginFetch(w)
    \/ \E w \in ProfileIds : \E i \in DOMAIN fetches[w] : Acquire(w, i)
    \/ \E w \in ProfileIds : \E i \in DOMAIN fetches[w] : JitterDone(w, i)
    \/ \E w \in ProfileIds : \E i \in DOMAIN fetches[w] : Response(w, i)
    \/ \E w \in ProfileIds : \E i \in DOMAIN fetches[w] : BackoffDone(w, i)
    \/ \E w \in ProfileIds : EndFetch(w)
    \/ \E w \in ProfileIds : CancelFetch(w)

SpecFetch == InitFetch /\ [][NextFetch]_vars

\* the detail-page requests in flight
InFlight == {<<w, i>> \in ProfileIds \X (1..MaxFetches) :
                i \in DOMAIN fetches[w] /\ fetches[w][i].pc = "get"}

\* C3: the workers share one job semaphore of three permits: at any moment
\* at most 3 detail-page requests are in flight, all workers taken together.
C3_JobSemaphoreShared ==
    Cardinality(InFlight) <= 3

\* three requests are in flight, of two workers, and a fourth fetch waits
C3_Witness ==
    /\ Cardinality(InFlight) = 3
    /\ \A w \in ProfileIds : \E i \in DOMAIN fetches[w] : fetches[w][i].pc = "get"
    /\ \E w \in ProfileIds : \E i \in DOMAIN fetches[w] : fetches[w][i].pc = "acquire"
    /\ job_semaphore = 0

(***************************************************************************)
(* Claims about the scheduler.                                             *)
(***************************************************************************)

\* a step in which an iteration of the reload loop ends without an error
IterationCompletes ==
    /\ reload.pc \in {"sleeping", "killing"}
    /\ reload'.pc \in {"sleeping", "done"}
    /\ reload'.last = "ok"
    /\ reload' # reload \/ worker_tasks' # worker_tasks

\* the task map holds a live worker task for exactly the profiles of ids,
\* and no other worker task is alive
OneWorkerEach(ids, wt, ts) ==
    /\ DOMAIN wt = ids
    /\ \A id \in DOMAIN wt : wt[id] \in DOMAIN ts /\ ~Finished(ts[wt[id]])
                             /\ ts[wt[id]].profile_id = id
    /\ \A t \in DOMAIN ts :
          ~Finished(ts[t]) => /\ ts[t].profile_id \in DOMAIN wt
                              /\ wt[ts[t].profile_id] = t

C2_ShutdownComplete ==
    stop.pc = "returned" => \A t \in DOMAIN tasks : Finished(tasks[t])

FetchOutcomes ==
    {[kind |-> "page", salary |-> sa] : sa \in Salaries}
    \cup {[kind |-> k, salary |-> S("N/A")]
            : k \in {"parse_error", "status_error", "request_error"}}

parse_job_detail_page(outcome, job_id, t) ==
    IF outcome.kind = "page"
    THEN ParsedDetail(job_id, "T", outcome.salary, S("50"), t)
    ELSE SentinelDetail(job_id, t)

\* a fetch that lets the error of request_with_backoff through
fetch_single_job_detail_Raising(job_id, outcome, t) ==
    IF outcome.kind \in {"status_error", "request_error"}
    THEN <<"exception", outcome.kind>>
    ELSE <<"JobDetail", parse_job_detail_page(outcome, job_id, t)>>

\* what the coroutine comes to in gather: a JobDetail, also when
\* request_with_backoff raised
fetch_single_job_detail(job_id, outcome, t) ==
    IF outcome.kind \in {"status_error", "request_error"}
    THEN <<"JobDetail", SentinelDetail(job_id, t)>>
    ELSE <<"JobDetail", parse_job_detail_page(outcome, job_id, t)>>

IsJobDetail(result) == result[1] = "JobDetail"

\* gather(..., return_exceptions=True), then the JobDetail results in order
fetch_job_details(job_ids, outcomes, t) ==
    LET results == [i \in DOMAIN job_ids |->
                        fetch_single_job_detail(job_ids[i], outcomes[i], t)]
        kept == SelectSeq(results, IsJobDetail)
    IN  [i \in DOMAIN kept |-> kept[i][2]]

InitDetails ==
    \E job_ids \in SeqsUpTo(JobIds, MaxBatch) :
        \E outcomes \in [DOMAIN job_ids -> FetchOutcomes] :
            /\ jobs = <<>>
            /\ jobs_fts = {}
            /\ job_changes = <<>>
            /\ change_seq = 0
            /\ now = 0
            /\ last_scraped = <<>>
            /\ cache = NoCache
            /\ applications = <<>>
            /\ op = [NoOp EXCEPT !.name = "fetch_called", !.arg = <<job_ids, outcomes>>]
            /\ SchedConstructed

FetchJobDetails ==
    /\ op.name = "fetch_called"
    /\ op' = [op EXCEPT !.name = "fetch",
                        !.batch = fetch_job_details(op.arg[1], op.arg[2], now)]
    /\ UNCHANGED <<jobs, jobs_fts, job_changes, change_seq, now, last_scraped, cache, applications>>
    /\ UNCHANGED service_vars

NextDetails == FetchJobDetails

SpecDetails == InitDetails /\ [][NextDetails]_vars

\* ---------------------------------------------------------------------------
\* One call of request_with_backoff (scraper.py), step by step.  request
\* keeps the responses it got and the backoff delays it slept, in order.
\* ---------------------------------------------------------------------------

\* the values of base_delay the call is made with
BaseDelays == {1, 2}

RECURSIVE Pow2(_)
Pow2(k) == IF k = 0 THEN 1 ELSE 2 * Pow2(k - 1)

\* a delay that does not grow
BackoffDelay_Constant(base_delay, attempt) == base_delay

\* delay = base_delay * (2 ** attempt)
BackoffDelay(base_delay, attempt) == base_delay * Pow2(attempt)

\* the exception a failed last attempt raises: raise_for_status for a
\* status, client.get itself for a request error
Raised(response) ==
    IF response = "request_error" THEN "RequestError" ELSE "HTTPStatusError"

InitRequest ==
    \E base_delay \in BaseDelays :
        /\ jobs = <<>>
        /\ jobs_fts = {}
        /\ job_changes = <<>>
        /\ change_seq = 0
        /\ now = 0
        /\ last_scraped = <<>>
        /\ cache = NoCache
        /\ applications = <<>>
        /\ op = NoOp
        /\ profiles = <<>>
        /\ profile_seq = 0
        /\ worker_tasks = <<>>
        /\ tasks = <<>>
        /\ shutdown_event = FALSE
        /\ service = "constructed"
        /\ reload = [pc |-> "absent", current |-> {}, queue |-> <<>>,
                     awaiting |-> <<0, 0>>, last |-> "none", changed |-> {}, read |-> {}]
        /\ stop = [pc |-> "idle", waiting |-> {}]
        /\ job_semaphore = 3
        /\ fetches = [w \in ProfileIds |-> <<>>]
        /\ request = [NoRequest EXCEPT !.pc = "acquire", !.base_delay = base_delay]
        /\ cycle = NoCycle

RequestSteps ==
    /\ UNCHANGED <<store_vars, sched_vars, fetches, cycle>>

\* "async with semaphore" is entered
RequestAcquire ==
    /\ request.pc = "acquire"
    /\ CanAcquire(job_semaphore)
    /\ job_semaphore' = job_semaphore - 1
    /\ request' = [request EXCEPT !.pc = "jitter"]
    /\ RequestSteps

\* asyncio.sleep(random.uniform(1.0, 3.0)) is over: the first attempt
RequestJitterDone ==
    /\ request.pc = "jitter"
    /\ request' = [request EXCEPT !.pc = "get", !.jitter = TRUE]
    /\ UNCHANGED job_semaphore
    /\ RequestSteps

\* client.get of the attempt is over: return the response, sleep before the
\* next attempt, or raise out of "async with"
RequestResponse ==
    /\ request.pc = "get"
    /\ \E response \in Responses :
          LET got == Append(request.responses, response)
          IN  IF response = "ok"
              THEN /\ request' = [request EXCEPT !.pc = "returned", !.responses = got,
                                                 !.result = "Response"]
                   /\ job_semaphore' = job_semaphore + 1
              ELSE IF request.attempt < max_retries - 1
              THEN /\ request' = [request EXCEPT
                                    !.pc = "backoff", !.responses = got,
                                    !.sleeps = Append(@, BackoffDelay(request.base_delay,
                                                                      request.attempt))]
                   /\ UNCHANGED job_semaphore
              ELSE /\ request' = [request EXCEPT !.pc = "raised", !.responses = got,
                                                 !.result = Raised(response)]
                   /\ job_semaphore' = job_semaphore + 1
    /\ RequestSteps

\* asyncio.sleep(delay) is over: continue with the next attempt
RequestBackoffDone ==
    /\ request.pc = "backoff"
    /\ request' = [request EXCEPT !.pc = "get", !.attempt = @ + 1]
    /\ UNCHANGED job_semaphore
    /\ RequestSteps

NextRequest ==
    \/ RequestAcquire
    \/ RequestJitterDone
    \/ RequestResponse
    \/ RequestBackoffDone

SpecRequest == InitRequest /\ [][NextRequest]_vars

\* ---------------------------------------------------------------------------
\* One call of _scrape_profile_once, stage by stage: the listing requests of
\* search_jobs_pages, the detail fetches of fetch_job_details under the job
\* semaphore, the loop over the details, the upsert.  A step runs the
\* coroutine from one await to the next.  cycle.log is the history of
\* search_jobs_pages: one entry per answered listing request.
\* ---------------------------------------------------------------------------

num_pages == 5

\* an except clause that lets request errors through
ListingCaught_StatusOnly(response) == response # "request_error"

\* line 469: except Exception
ListingCaught(response) == TRUE

\* a gather that returns with the first result
Gathered_First(fs) == \E i \in DOMAIN fs : fs[i].pc \in {"detail", "sentinel"}

\* gather returns when every fetch_single_job_detail has returned
Gathered(fs) == \A i \in DOMAIN fs : fs[i].pc \in {"detail", "sentinel"}

CycleSteps ==
    /\ UNCHANGED <<sched_vars, request, change_seq, now, last_scraped, cache, applications, op>>

\* the worker calls _scrape_profile_once: the request of the first page
CycleStart ==
    /\ cycle.pc = "absent"
    /\ \E p \in ProfileIds : cycle' = [NoCycle EXCEPT !.pc = "listing", !.profile = p]
    /\ UNCHANGED <<jobs, jobs_fts, job_changes, fetch_vars>>
    /\ CycleSteps

\* search_jobs_pages has returned: no summaries, return 0; else the detail
\* fetches are created and gathered.  listing_failed: no listing request of
\* the call was answered with a page.
AfterSearch(summaries, listing_failed) ==
    IF summaries = <<>>
    THEN /\ cycle' = [cycle EXCEPT !.pc = "returned", !.log = <<>>, !.count = 0,
                                   !.listing_failed = listing_failed]
         /\ UNCHANGED fetches
    ELSE /\ cycle' = [cycle EXCEPT !.pc = "details", !.log = <<>>,
                                   !.summaries = summaries,
                                   !.listing_failed = listing_failed]
         /\ fetches' = [fetches EXCEPT ![cycle.profile] =
                           [i \in DOMAIN summaries |-> [pc |-> "acquire", attempt |-> 0]]]

\* client.get of a listing page is over (lines 451-471): the cards are
\* appended and the jitter sleep begins, or the error is logged and the loop
\* continues with the request of the next page
ListingResponse ==
    /\ cycle.pc = "listing"
    /\ \E response \in Responses :
       \E cards \in {<<>>} \cup {<<id>> : id \in {j \in JobIds : response = "ok"
                                                  /\ Len(cycle.summaries) < MaxBatch}} :
          LET last_page == cycle.page = num_pages - 1
              entry(slept) == [page |-> cycle.page, response |-> response, slept |-> slept]
          IN  IF response = "ok"
              THEN IF last_page
                   THEN AfterSearch(cycle.summaries \o cards, FALSE)
                   ELSE /\ cycle' = [cycle EXCEPT !.pc = "page_sleep",
                                                  !.listing_failed = FALSE,
                                                  !.summaries = @ \o cards,
                                                  !.log = Append(@, entry("jitter"))]
                        /\ UNCHANGED fetches
              ELSE IF ~ListingCaught(response)
              THEN /\ cycle' = [cycle EXCEPT !.pc = "raised", !.log = <<>>]
                   /\ UNCHANGED fetches
              ELSE IF last_page
                   THEN AfterSearch(cycle.summaries, cycle.listing_failed)
                   ELSE /\ cycle' = [cycle EXCEPT !.page = @ + 1,
                                                  !.log = Append(@, entry("none"))]
                        /\ UNCHANGED fetches
    /\ UNCHANGED <<jobs, jobs_fts, job_changes, job_semaphore>>
    /\ CycleSteps

\* asyncio.sleep(random.uniform(1.0, 3.0)) is over: the request of the next page
PageSleepDone ==
    /\ cycle.pc = "page_sleep"
    /\ cycle' = [cycle EXCEPT !.pc = "listing", !.page = @ + 1]
    /\ UNCHANGED <<jobs, jobs_fts, job_changes, fetch_vars>>
    /\ CycleSteps

\* gather returns: fetch_job_details returns one JobDetail per job id
CycleGather ==
    /\ cycle.pc = "details"
    /\ Gathered(fetches[cycle.profile])
    /\ \E outcomes \in [DOMAIN cycle.summaries -> FetchOutcomes] :
          /\ \A i \in DOMAIN cycle.summaries :
                IF i \in DOMAIN fetches[cycle.profile]
                   /\ fetches[cycle.profile][i].pc = "detail"
                THEN outcomes[i].kind \in {"page", "parse_error"}
                ELSE outcomes[i].kind = "status_error"
          /\ cycle' = [cycle EXCEPT
                         !.pc = "loop",
                         !.details = fetch_job_details(cycle.summaries, outcomes, now)]
    /\ fetches' = [fetches EXCEPT ![cycle.profile] = <<>>]
    /\ job_semaphore' = job_semaphore
                        + Cardinality({i \in DOMAIN fetches[cycle.profile] :
                                         Holding(fetches[cycle.profile][i])})
    /\ UNCHANGED <<jobs, jobs_fts, job_changes>>
    /\ CycleSteps

\* lines 195-211: the loop over the details, with its change records
CycleDetailLoop ==
    /\ cycle.pc = "loop"
    /\ LET l == DetailLoop([st |-> Store, seq |-> Len(job_changes), batch |-> <<>>,
                            calls |-> <<>>, raised |-> FALSE],
                           cycle.details, 1, cycle.profile, now)
       IN  /\ Len(l.st.changes) <= MaxChanges
           /\ job_changes' = l.st.changes
           /\ cycle' = [cycle EXCEPT !.pc = IF l.raised THEN "raised" ELSE "upsert",
                                     !.batch = l.batch]
    /\ UNCHANGED <<jobs, jobs_fts, fetch_vars>>
    /\ CycleSteps

\* lines 217-223: count = self.db.upsert_jobs(jobs_to_upsert); return count
CycleUpsert ==
    /\ cycle.pc = "upsert"
    /\ LET u == upsert_jobs(Store, cycle.batch, now)
       IN  /\ jobs' = u.st.jobs
           /\ jobs_fts' = u.st.fts
           /\ job_changes' = u.st.changes
           /\ cycle' = [cycle EXCEPT !.pc = IF u.raised THEN "raised" ELSE "returned",
                                     !.count = IF u.raised THEN 0 ELSE u.count]
    /\ UNCHANGED fetch_vars
    /\ CycleSteps

NextPipeline ==
    \/ CycleStart
    \/ ListingResponse
    \/ PageSleepDone
    \/ \E w \in ProfileIds : \E i \in DOMAIN fetches[w] : Acquire(w, i)
    \/ \E w \in ProfileIds : \E i \in DOMAIN fetches[w] : JitterDone(w, i)
    \/ \E w \in ProfileIds : \E i \in DOMAIN fetches[w] : Response(w, i)
    \/ \E w \in ProfileIds : \E i \in DOMAIN fetches[w] : BackoffDone(w, i)
    \/ CycleGather
    \/ CycleDetailLoop
    \/ CycleUpsert

SpecPipeline == InitFirstCycle /\ [][NextPipeline]_vars

\* ----- the cycles of two workers over one store -----

\* the cycle of worker w reaches its detail stage with the one job id its
\* listing gave: fetch_job_details creates the fetch and gathers
BeginDetails(w) ==
    /\ fetches[w] = <<>>
    /\ fetches' = [fetches EXCEPT ![w] = <<[pc |-> "acquire", attempt |-> 0]>>]
    /\ UNCHANGED job_semaphore
    /\ FetchSteps(w)

\* the JobDetail records gather can return for the fetches of worker w: the
\* sentinel record for a fetch that failed, a parsed page else
GatheredDetails(w, t) ==
    {details \in [DOMAIN fetches[w] ->
                     FailedDetails(t)
                     \cup {ParsedDetail(id, "T", sa, S("50"), t)
                              : id \in JobIds, sa \in Salaries}] :
        \A i \in DOMAIN details :
           details[i] \in FailedDetails(t) <=> fetches[w][i].pc = "sentinel"}

\* a cycle that is suspended between the loop over the details and
\* upsert_jobs
DiffAndUpsert_Suspending(w) ==
    \/ /\ op.name = "none"
       /\ fetches[w] # <<>>
       /\ Gathered(fetches[w])
       /\ \E details \in GatheredDetails(w, now) :
             LET l == DetailLoop([st |-> Store, seq |-> change_seq, batch |-> <<>>,
                                  calls |-> <<>>, raised |-> FALSE],
                                 details, 1, w, now)
             IN  /\ l.seq <= MaxChanges
                 /\ SetStore(l.st)
                 /\ change_seq' = l.seq
                 /\ op' = [NoOp EXCEPT !.name = "loop", !.arg = details,
                                       !.batch = l.batch, !.calls = l.calls,
                                       !.raised = l.raised, !.profile = w]
       /\ fetches' = [fetches EXCEPT ![w] = <<>>]
       /\ UNCHANGED <<job_semaphore, now, last_scraped, cache>>
       /\ UNCHANGED <<sched_vars, pipeline_vars>>
    \/ /\ op.name = "loop"
       /\ op.profile = w
       /\ LET u == upsert_jobs(Store, op.batch, now)
          IN  /\ SetStore(u.st)
              /\ op' = [op EXCEPT !.name = "scrape", !.upserted = TRUE,
                                  !.raised = u.raised, !.count = u.count]
       /\ UNCHANGED <<change_seq, now, last_scraped, cache>>
       /\ UNCHANGED service_vars

\* gather has returned the details of worker w: the loop over the details
\* (get_job, _detect_job_changes) and upsert_jobs, up to the return of
\* _scrape_profile_once; nothing in between is awaited that suspends
DiffAndUpsert(w) ==
    /\ op.name = "none"
    /\ fetches[w] # <<>>
    /\ Gathered(fetches[w])
    /\ \E details \in GatheredDetails(w, now) :
          LET r == _scrape_profile_once(Store, change_seq, details, w, now)
          IN  /\ r.seq <= MaxChanges
              /\ SetStore(r.st)
              /\ change_seq' = r.seq
              /\ op' = [NoOp EXCEPT !.name = "scrape", !.arg = details,
                                    !.batch = r.batch, !.calls = r.calls,
                                    !.upserted = r.upserted, !.raised = r.raised,
                                    !.count = r.count, !.profile = w]
    /\ fetches' = [fetches EXCEPT ![w] = <<>>]
    /\ UNCHANGED <<job_semaphore, now, last_scraped, cache>>
    /\ UNCHANGED <<sched_vars, pipeline_vars>>

NextTwoCycles ==
    \/ \E w \in ProfileIds : BeginDetails(w)
    \/ \E w \in ProfileIds : \E i \in DOMAIN fetches[w] : Acquire(w, i)
    \/ \E w \in ProfileIds : \E i \in DOMAIN fetches[w] : JitterDone(w, i)
    \/ \E w \in ProfileIds : \E i \in DOMAIN fetches[w] : Response(w, i)
    \/ \E w \in ProfileIds : \E i \in DOMAIN fetches[w] : BackoffDone(w, i)
    \/ \E w \in ProfileIds : DiffAndUpsert(w)
    \/ Return

SpecTwoCycles == InitFirstCycle /\ [][NextTwoCycles]_vars

(***************************************************************************)
(* Claims about the stages of a scrape cycle.                              *)
(***************************************************************************)

\* the detail carries the sentinel in its title or its company
SentinelRecord(d) == d["title"] = "N/A" \/ d["company"] = <<"N", "/", "A">>

\* C11: a detail-stage record whose title or company is the sentinel "N/A"
\* is not among the records handed to upsert_jobs, and when the cycle has no
\* other record of that job id, the cycle writes no change record for the id
\* and leaves the stored row of the id, present or absent, as it was.
C11_SentinelNotUpserted ==
    [][op'.name = "scrape"
        => /\ \A k \in DOMAIN op'.batch : ~SentinelRecord(op'.batch[k])
           /\ \A i \in DOMAIN op'.arg :
                (/\ SentinelRecord(op'.arg[i])
                 /\ \A j \in DOMAIN op'.arg :
                        op'.arg[j]["job_id"] = op'.arg[i]["job_id"]
                        => SentinelRecord(op'.arg[j]))
                => LET id == op'.arg[i]["job_id"]
                   IN  /\ (id \in DOMAIN jobs') = (id \in DOMAIN jobs)
                       /\ id \in DOMAIN jobs => jobs'[id] = jobs[id]
                       /\ \A k \in DOMAIN op'.calls : op'.calls[k].job_id # id
                       /\ {k \in DOMAIN job_changes' : job_changes'[k].job_id = id}
                          = {k \in DOMAIN job_changes : job_changes[k].job_id = id}]_vars

\* a cycle met a stored job twice, as a failed fetch and as a page without a
\* company, next to a valid record of another stored job
C11_Witness ==
    /\ op.name = "scrape"
    /\ Len(op.arg) = 2
    /\ SentinelRecord(op.arg[1])
    /\ op.arg[1]["job_id"] \in DOMAIN jobs
    /\ ~SentinelRecord(op.arg[2])
    /\ op.arg[2]["job_id"] # op.arg[1]["job_id"]
    /\ op.arg[1]["title"] = "T"
    /\ Len(op.batch) = 1

\* C12: fetch_job_details returns one record per requested job id, in the
\* order of the request; the record of an id whose fetch or parse failed
\* carries that id with sentinel title and company, and the record of an id
\* whose page was fetched is the one parsed from its page, whatever became
\* of the other ids.
C12_OneDetailPerId ==
    op.name = "fetch"
    => LET job_ids == op.arg[1]
           outcomes == op.arg[2]
       IN  /\ Len(op.batch) = Len(job_ids)
           /\ \A i \in DOMAIN job_ids :
                /\ i \in DOMAIN op.batch
                /\ op.batch[i]["job_id"] = job_ids[i]
                /\ outcomes[i].kind # "page"
                     => /\ op.batch[i]["title"] = "N/A"
                        /\ op.batch[i]["company"] = <<"N", "/", "A">>
                /\ outcomes[i].kind = "page"
                     => /\ op.batch[i]["title"] = "T"
                        /\ op.batch[i]["company"] = <<"A", "b", " ", "I", "n", "c">>
                        /\ op.batch[i]["salary"] = outcomes[i].salary

\* two ids were requested: the first request raised, the second gave a page
C12_Witness ==
    /\ op.name = "fetch"
    /\ Len(op.arg[1]) = 2
    /\ op.arg[2][1].kind = "status_error"
    /\ op.arg[2][2].kind = "page"
    /\ Len(op.batch) = 2
    /\ op.batch[1]["title"] = "N/A"
    /\ op.batch[2]["title"] = "T"

\* the GET attempts the call has issued so far
Gets == Len(request.responses) + (IF request.pc = "get" THEN 1 ELSE 0)

\* C14: a call of request_with_backoff that has got nothing but 429 issues
\* max_retries GET attempts and no more, has slept base_delay * 2^k after the
\* k-th failed attempt (k = 0, 1, ...) before the next one, and raises an
\* HTTP status error after the last; no call issues more than max_retries
\* attempts.
C14_BackoffOn429 ==
    /\ Gets <= max_retries
    /\ (\A k \in DOMAIN request.responses : request.responses[k] = "rate_limited")
         => /\ request.pc \notin {"returned"}
            /\ Len(request.sleeps) = Min(Len(request.responses), max_retries - 1)
            /\ \A k \in DOMAIN request.sleeps :
                   request.sleeps[k] = request.base_delay * Pow2(k - 1)
            /\ (request.pc = "raised") = (Len(request.responses) = max_retries)
            /\ request.pc = "raised"
                 => /\ request.result = "HTTPStatusError"
                    /\ Gets = max_retries
            /\ request.pc = "get" => Len(request.sleeps) = Gets - 1

\* three 429 in a row: the call slept base_delay and 2 * base_delay and raised
C14_Witness ==
    /\ request.pc = "raised"
    /\ request.responses = <<"rate_limited", "rate_limited", "rate_limited">>
    /\ request.sleeps = <<request.base_delay, 2 * request.base_delay>>
    /\ request.result = "HTTPStatusError"
    /\ job_semaphore = 3

\* C13: the steps of one scrape cycle are ordered.  A listing request is the
\* request of the page after the one requested before it, and no detail fetch
\* exists when it is issued; a detail request is issued only once the listing
\* search has returned; the loop over the details begins only when every
\* detail fetch has returned; change records are written in that loop only,
\* before upsert_jobs is called, and the jobs table is written by that call
\* only.
C13_CycleOrder ==
    [][/\ (cycle'.pc = "listing" /\ (cycle.pc # "listing" \/ cycle'.page # cycle.page))
            => /\ cycle.pc \in {"absent", "listing", "page_sleep"}
               /\ cycle'.page = IF cycle.pc = "absent" THEN 0 ELSE cycle.page + 1
               /\ Len(cycle'.log) = cycle'.page
               /\ \A i \in DOMAIN cycle'.log : cycle'.log[i].page = i - 1
               /\ \A w \in ProfileIds : fetches[w] = <<>> /\ fetches'[w] = <<>>
       /\ (\E w \in ProfileIds : \E i \in DOMAIN fetches'[w] :
              /\ fetches'[w][i].pc = "get"
              /\ i \in DOMAIN fetches[w] => fetches'[w][i] # fetches[w][i])
            => /\ cycle.pc = "details"
               /\ cycle'.pc = "details"
               /\ cycle.log = <<>>
       /\ (cycle'.pc = "loop" /\ cycle.pc # "loop")
            => /\ cycle.pc = "details"
               /\ DOMAIN fetches[cycle.profile] = DOMAIN cycle.summaries
               /\ \A i \in DOMAIN fetches[cycle.profile] :
                      fetches[cycle.profile][i].pc \in {"detail", "sentinel"}
               /\ Len(cycle'.details) = Len(cycle.summaries)
       /\ job_changes' # job_changes
            => /\ cycle.pc = "loop"
               /\ cycle'.pc \in {"upsert", "raised"}
               /\ jobs' = jobs
       /\ (jobs' # jobs \/ (cycle.pc = "upsert" /\ cycle'.pc # "upsert"))
            => /\ cycle.pc = "upsert"
               /\ job_changes' = job_changes
               /\ \A w \in ProfileIds : fetches[w] = <<>>]_vars

\* a cycle of two jobs went through every stage: five listing requests, two
\* detail fetches, a change record of a stored job, then the call of upsert_jobs
C13_Witness ==
    /\ cycle.pc \in {"returned", "raised"}
    /\ cycle.page = num_pages - 1
    /\ Len(cycle.summaries) = 2
    /\ Len(cycle.details) = 2
    /\ cycle.batch # <<>>
    /\ job_changes # <<>>
    /\ \E k \in DOMAIN job_changes : job_changes[k].job_id = cycle.batch[1]["job_id"]

\* C15: a listing request answered 429 is retried: the fetcher sleeps a
\* backoff delay and the next listing request is of the same page.
C15_ListingBackoff ==
    \A i \in DOMAIN cycle.log :
        cycle.log[i].response = "rate_limited"
        => /\ cycle.log[i].slept # "none"
           /\ cycle.log[i].page = IF i < Len(cycle.log) THEN cycle.log[i + 1].page
                                  ELSE cycle.page

\* C16: search_jobs_pages holds no permit of the job semaphore, and every
\* listing request that is followed by another one is followed by the
\* inter-page jitter sleep first, whether it succeeded or failed.
C16_ListingJitter ==
    /\ cycle.pc \in {"listing", "page_sleep"} => job_semaphore = 3
    /\ \A i \in DOMAIN cycle.log : cycle.log[i].slept = "jitter"

\* C17: a cycle whose listing requests all failed, or whose detail fetches
\* all came to the sentinel record, returns 0 and does not raise, and no
\* step of the cycle has written the jobs table.
C17_FailedFetchesReturnZero ==
    [][/\ cycle'.pc \notin {"returned", "raised"} => jobs' = jobs
       /\ (/\ cycle'.pc \in {"returned", "raised"}
           /\ cycle.pc \notin {"returned", "raised"}
           /\ \/ cycle'.listing_failed
              \/ /\ cycle'.details # <<>>
                 /\ \A i \in DOMAIN cycle'.details :
                        cycle'.details[i] = SentinelDetail(cycle'.summaries[i], now))
            => /\ cycle'.pc = "returned"
               /\ cycle'.count = 0
               /\ jobs' = jobs
               /\ jobs_fts' = jobs_fts
               /\ job_changes' = job_changes]_vars

\* the listing gave two jobs, both detail fetches failed, the cycle returned 0
C17_Witness ==
    /\ cycle.pc = "returned"
    /\ cycle.count = 0
    /\ Len(cycle.summaries) = 2
    /\ Len(cycle.details) = 2
    /\ \A i \in DOMAIN cycle.details :
           cycle.details[i] = SentinelDetail(cycle.summaries[i], now)
    /\ jobs # <<>>

\* C18: a worker that starts a cycle for an enabled profile, when every
\* update of the profile's row has been read by a reload iteration that
\* completed, uses the refresh interval of the row.
C18_UpdatesObserved ==
    [][\A t \in DOMAIN tasks :
          (/\ tasks[t].pc # "scraping"
           /\ t \in DOMAIN tasks'
           /\ tasks'[t].pc = "scraping"
           /\ tasks[t].profile_id \in DOMAIN profiles
           /\ tasks[t].profile_id \in DOMAIN worker_tasks
           /\ worker_tasks[tasks[t].profile_id] = t
           /\ profiles[tasks[t].profile_id].enabled = 1
           /\ tasks[t].profile_id \notin reload.changed \cup reload.read)
          => tasks'[t].refresh_interval
               = profiles[tasks[t].profile_id].refresh_interval]_vars

\* C19: when start() returns, the task map holds one worker task, newly
\* created, for each profile enabled in the store and none for a disabled
\* one, and no other task exists; a store that held no profile holds the
\* enabled default profile, with its worker, and a store that held one is
\* left as it was.
C19_StartSpawnsEnabled ==
    [][(service = "constructed" /\ service' = "started")
        => /\ DOMAIN worker_tasks'
                = {id \in DOMAIN profiles' : profiles'[id].enabled = 1}
           /\ \A id \in DOMAIN worker_tasks' :
                 /\ worker_tasks'[id] \in DOMAIN tasks'
                 /\ tasks'[worker_tasks'[id]].profile_id = id
                 /\ tasks'[worker_tasks'[id]].pc = "created"
                 /\ tasks'[worker_tasks'[id]].refresh_interval
                      = profiles'[id].refresh_interval
           /\ \A t \in DOMAIN tasks' :
                 /\ tasks'[t].profile_id \in DOMAIN worker_tasks'
                 /\ worker_tasks'[tasks'[t].profile_id] = t
           /\ IF DOMAIN profiles = {}
              THEN /\ Cardinality(DOMAIN profiles') = 1
                   /\ \A id \in DOMAIN profiles' :
                          /\ profiles'[id].name = "default"
                          /\ profiles'[id].enabled = 1
                          /\ id \in DOMAIN worker_tasks'
              ELSE profiles' = profiles]_vars

\* start() has just returned over a store of an enabled and a disabled
\* profile: the enabled one has its worker, the disabled one has none
C19_Witness ==
    /\ service = "started"
    /\ reload.pc = "created"
    /\ \E id \in DOMAIN profiles :
          /\ profiles[id].enabled = 1
          /\ id \in DOMAIN worker_tasks
          /\ tasks[worker_tasks[id]].pc = "created"
    /\ \E id \in DOMAIN profiles :
          /\ profiles[id].enabled = 0
          /\ id \notin DOMAIN worker_tasks

\* C20: a call of _spawn_worker for a profile id that has a task in the map
\* creates no task and leaves the map as it was, the id mapped to the same
\* task in the same state.
C20_DuplicateSpawnNoOp ==
    [][(/\ op.name = "none"
        /\ op'.name = "spawn"
        /\ op'.profile \in DOMAIN worker_tasks)
        => /\ worker_tasks' = worker_tasks
           /\ tasks' = tasks
           /\ op'.arg = <<worker_tasks'[op'.profile]>>]_vars

\* _spawn_worker was called for a profile whose worker was in the map and
\* had run: the map holds that task
C20_Witness ==
    /\ op.name = "spawn"
    /\ op.arg # <<>>
    /\ op.profile \in DOMAIN worker_tasks
    /\ worker_tasks[op.profile] = op.arg[1]
    /\ tasks[op.arg[1]].pc = "sleeping"
    /\ Cardinality(DOMAIN tasks) = 1

\* C21: when _kill_worker(id) returns for an id that had a worker, that
\* worker's task is done, the id is not in the task map and nothing was
\* raised; for an id with no worker the call returns at once, raises nothing
\* and leaves the task map and every task as they were.
C21_KillWorker ==
    [][(op'.name = "kill" /\ op.name # "kill") =>
         /\ ~op'.raised
         /\ op'.profile \notin DOMAIN worker_tasks'
         /\ op'.arg # <<>> =>
               \/ op'.arg[1] \notin DOMAIN tasks'
               \/ Finished(tasks'[op'.arg[1]])
         /\ op'.arg = <<>> =>
               /\ op.name = "none"
               /\ worker_tasks' = worker_tasks
               /\ tasks' = tasks]_vars

\* a kill of a worker that was asleep has returned
C21_Witness ==
    /\ op.name = "kill"
    /\ op.arg # <<>>
    /\ op.calls = <<"sleeping">>
    /\ op.profile \in DOMAIN profiles
    /\ Cardinality(DOMAIN worker_tasks) = 1

\* C22: an iteration of the reload loop that fails does not end the loop:
\* unless shutdown was signalled the loop is at its sleep after the error,
\* or in the iteration that followed, and from the sleep a further iteration
\* eventually runs.
C22_ReloadSurvivesError ==
    /\ [](reload.last = "error" /\ ~shutdown_event
            => reload.pc \in {"sleeping", "killing"})
    /\ ((reload.last = "error" /\ reload.pc = "sleeping" /\ ~shutdown_event)
          ~> (reload.last = "ok" \/ reload.pc # "sleeping"))

\* an iteration failed while the service runs with a worker in its map
C22_Witness ==
    /\ reload.last = "error"
    /\ reload.pc = "sleeping"
    /\ ~shutdown_event
    /\ worker_tasks # <<>>

\* C23: every row of the jobs table has normalized_company_name equal to
\* normalize_company_name of its company, whatever the records upserted
\* carried.
C23_NormalizedCompany ==
    \A id \in DOMAIN jobs :
        jobs[id]["normalized_company_name"] = normalize_company_name(jobs[id]["company"])

\* C24: every row of the applications table has one of the five statuses
\* applied, interviewing, rejected, offered, accepted.
C24_StatusValid ==
    \A i \in DOMAIN applications : applications[i].status \in valid_statuses

\* C25: mark_job_applied for a job that is not in the jobs table returns
\* False and leaves the applications table as it was; for a job that is in
\* the table it returns True and the job has exactly one application row
\* after the call, whether or not it had one before.
C25_MarkJobApplied ==
    [][(op.name = "none" /\ op'.name = "mark_job_applied") =>
         IF op'.arg[1] \in DOMAIN jobs
         THEN /\ op'.arg[2]
              /\ Cardinality(ApplicationsOf(applications', op'.arg[1])) = 1
         ELSE /\ ~op'.arg[2]
              /\ applications' = applications]_vars

\* job 1 was marked applied, then job 2, then job 1 once more
C25_Witness ==
    /\ op.name = "mark_job_applied"
    /\ op.arg = <<"1", TRUE>>
    /\ Len(applications) = 2
    /\ applications[1].job_id = "1"
    /\ applications[2].job_id = "2"

\* C26: delete_profile(id, hard_delete=True) removes the profile's row,
\* sets profile_id to NULL on every job that referenced the profile and
\* deletes no row of the jobs table.
C26_HardDelete ==
    [][(op.name = "none" /\ op'.name = "delete_profile" /\ op'.arg[2]) =>
         /\ op'.arg[1] \notin DOMAIN profiles'
         /\ DOMAIN jobs' = DOMAIN jobs
         /\ \A j \in DOMAIN jobs :
               jobs[j]["profile_id"] = <<"int", op'.arg[1]>>
                  => jobs'[j]["profile_id"] = None]_vars

\* a hard delete of a profile has left a job without a profile, and another
\* job with its own
C26_Witness ==
    /\ op.name = "delete_profile"
    /\ op.arg[2]
    /\ op.arg[1] \notin DOMAIN profiles
    /\ \E j \in DOMAIN jobs : jobs[j]["profile_id"] = None
    /\ \E j \in DOMAIN jobs : jobs[j]["profile_id"] # None

\* C27: delete_profile(id, hard_delete=False) of a stored profile keeps its
\* row and sets enabled to 0; the row's name, location, keywords, distance,
\* time filter, refresh interval and last-scraped timestamp stay as they
\* were under the same id, and so does the jobs table.
C27_SoftDelete ==
    [][(op.name = "none" /\ op'.name = "delete_profile" /\ ~op'.arg[2]
          /\ op'.arg[1] \in DOMAIN profiles) =>
         /\ op'.arg[1] \in DOMAIN profiles'
         /\ profiles'[op'.arg[1]].enabled = 0
         /\ \A f \in {"name", "location", "keywords", "distance", "time_filter",
                       "refresh_interval", "last_scraped_at"} :
               profiles'[op'.arg[1]][f] = profiles[op'.arg[1]][f]
         /\ jobs' = jobs]_vars

\* a profile that has been scraped and has a job was soft-deleted
C27_Witness ==
    /\ op.name = "delete_profile"
    /\ ~op.arg[2]
    /\ op.arg[1] \in DOMAIN profiles
    /\ profiles[op.arg[1]].last_scraped_at = 1
    /\ \E j \in DOMAIN jobs : jobs[j]["profile_id"] = <<"int", op.arg[1]>>

\* C28: seed_default_profile on an empty profiles table inserts the profile
\* named default and returns its id; on a table with any row, enabled or
\* not, it returns None and leaves the table as it was; the table never has
\* two profiles named default.
C28_SeedDefault ==
    /\ [][(op.name = "none" /\ op'.name = "seed_default_profile") =>
            IF DOMAIN profiles = {}
            THEN /\ DOMAIN profiles' = {op'.arg[1]}
                 /\ profiles'[op'.arg[1]].name = "default"
            ELSE /\ op'.arg[1] = 0
                 /\ profiles' = profiles]_vars
    /\ [](Cardinality({id \in DOMAIN profiles : profiles[id].name = "default"}) <= 1)

\* seed_default_profile returned None on a table that has only disabled
\* profiles
C28_Witness ==
    /\ op.name = "seed_default_profile"
    /\ op.arg = <<0>>
    /\ DOMAIN profiles # {}
    /\ \A id \in DOMAIN profiles : profiles[id].enabled = 0

\* C29: no two rows of the profiles table have the same name; upsert_profile
\* with the name of a row updates that row and returns its id, adding no
\* row, and with a new name adds one row and returns an id no row had.
C29_UpsertProfile ==
    /\ [](\A a, b \in DOMAIN profiles : profiles[a].name = profiles[b].name => a = b)
    /\ [][(op.name = "none" /\ op'.name = "upsert_profile") =>
            LET profile == op'.arg[1]
                id == op'.arg[2]
            IN  IF \E p \in DOMAIN profiles : profiles[p].name = profile.name
                THEN /\ DOMAIN profiles' = DOMAIN profiles
                     /\ profiles[id].name = profile.name
                     /\ profiles'[id].enabled = profile.enabled
                     /\ \A p \in DOMAIN profiles \ {id} : profiles'[p] = profiles[p]
                ELSE /\ id > profile_seq
                     /\ DOMAIN profiles' = DOMAIN profiles \cup {id}
                     /\ profiles'[id].name = profile.name
                     /\ \A p \in DOMAIN profiles : profiles'[p] = profiles[p]]_vars

\* an upsert updated the older of two profiles, disabling it
C29_Witness ==
    /\ op.name = "upsert_profile"
    /\ Cardinality(DOMAIN profiles) = 2
    /\ op.arg[2] \in DOMAIN profiles
    /\ op.arg[2] < profile_seq
    /\ profiles[op.arg[2]].enabled = 0

\* C30: rebuild_fts() can be called on the store: it returns without
\* raising, the full-text index then holds exactly one entry per row of the
\* jobs table, at the row's rowid and with the row's text, and the jobs table
\* is as it was.
C30_RebuildFts ==
    [][(op.name = "none" /\ op'.name = "rebuild_fts") =>
         /\ ~op'.raised
         /\ jobs' = jobs
         /\ jobs_fts' = {[docid |-> jobs[j].rowid, text |-> FtsText(jobs[j])] :
                            j \in DOMAIN jobs}]_vars

C32_FlushAtomic ==
    [][/\ cache.flush # "idle" =>
            \/ cache'.cache_file = cache.cache_file
            \/ /\ cache.temp_file = cache._cache
               /\ cache'.cache_file = cache._cache
               /\ cache'.temp_file = Absent
       /\ (cache.flush # "idle" /\ cache'.flush = "idle" /\ cache'._needs_flush) =>
            /\ op'.raised
            /\ cache'.cache_file = cache.cache_file
            /\ cache'.temp_file = Absent
       /\ (cache.flush # "idle" /\ op'.raised) => cache'._needs_flush]_vars

\* a flush() of two values raised: the file still has the old line
C32_Witness ==
    /\ op.name = "flush"
    /\ op.raised
    /\ cache._needs_flush
    /\ cache.temp_file = Absent
    /\ Len(cache._cache) = 2
    /\ cache.cache_file # cache._cache

\* C33: neither parser raises; a missing element gives "N/A" (strings), an
\* empty list (skills), false (flags) and None (salary bounds), and the
\* detail parser's result carries the job id it was given.
C33_ParsersNeverRaise ==
    /\ op.name = "parse_search_card" =>
          /\ ~op.raised
          /\ (op.arg[1] = NoCard \/ op.arg[1].title = None) => op.arg[2].title = NA
          /\ (op.arg[1] = NoCard \/ op.arg[1].company = None) => op.arg[2].company = NA
          /\ (op.arg[1] = NoCard \/ op.arg[1].urn = None) => op.arg[2].job_id = "N/A"
    /\ op.name = "parse_job_detail_page" =>
          /\ ~op.raised
          /\ op.arg[3].job_id = op.arg[2]
          /\ op.arg[1].title = None => op.arg[3].title = NA
          /\ op.arg[1].company = None =>
                /\ op.arg[3].company = NA
                /\ op.arg[3].normalized_company_name = NA
          /\ op.arg[1].salary = None =>
                /\ op.arg[3].salary = NA
                /\ op.arg[3].salary_min = None
                /\ op.arg[3].salary_max = None
                /\ ~op.arg[3].equity_offered
          /\ op.arg[1].description = None => op.arg[3].skills = <<>>

\* C34: a worker's cycle that returns is followed, in the same step, by
\* update_profile_last_run for the worker's profile alone and by the sleep
\* of the worker's refresh_interval; a cycle starts only from the start of
\* the task or from a sleep, never from a cycle, and no two tasks of one
\* profile are in a cycle together.
C34_CyclesSequential ==
    /\ [](\A t1, t2 \in DOMAIN tasks :
            (/\ tasks[t1].profile_id = tasks[t2].profile_id
             /\ tasks[t1].pc = "scraping"
             /\ tasks[t2].pc = "scraping") => t1 = t2)
    /\ [][\A t \in DOMAIN tasks \cap DOMAIN tasks' :
            /\ (tasks[t].pc = "scraping" /\ tasks'[t].outcome = "ok") =>
                  /\ tasks'[t].pc = "sleeping"
                  /\ tasks'[t].sleep_for = tasks[t].refresh_interval
                  /\ \A id \in DOMAIN profiles :
                        profiles'[id] =
                            IF id = tasks[t].profile_id
                            THEN [profiles[id] EXCEPT !.last_scraped_at = 1]
                            ELSE profiles[id]
            /\ (/\ tasks[t].pc = "scraping"
                /\ [tasks'[t] EXCEPT !.cancel = tasks[t].cancel] # tasks[t]) =>
                  tasks'[t].pc \in {"sleeping", "backoff", "done"}
            /\ (tasks[t].pc # "scraping" /\ tasks'[t].pc = "scraping") =>
                  tasks[t].pc \in {"created", "sleeping", "backoff"}]_vars

\* a worker is in its second cycle
C34_Witness ==
    \E t \in DOMAIN tasks :
        /\ tasks[t].pc = "scraping"
        /\ tasks[t].profile_id \in DOMAIN profiles
        /\ profiles[tasks[t].profile_id].last_scraped_at = 1

\* C35: once stop() has returned, no step spawns a worker (no new task),
\* kills a worker (no task newly cancelled) or changes the task map.
C35_StopEndsReconciliation ==
    [][stop.pc = "returned" =>
          /\ worker_tasks' = worker_tasks
          /\ DOMAIN tasks' \subseteq DOMAIN tasks
          /\ \A t \in DOMAIN tasks' : tasks'[t].cancel = tasks[t].cancel]_vars

\* C36: upsert_jobs leaves every application row in place as it was, and an
\* application row goes only when its job is no longer in the jobs table.
C36_UpsertKeepsApplication ==
    [][/\ (op.name = "none" /\ op'.name = "upsert_jobs") =>
            \A i \in DOMAIN applications :
               \E k \in DOMAIN applications' : applications'[k] = applications[i]
       /\ \A i \in DOMAIN applications :
            ApplicationsOf(applications', applications[i].job_id) = {}
                => applications[i].job_id \notin DOMAIN jobs']_vars

\* C37: upsert_profile on a stored name leaves every optional attribute the
\* dictionary omits (enabled, distance, time_filter, refresh_interval) at
\* its stored value; a soft-deleted profile stays disabled unless the
\* dictionary names enabled.
C37_UpsertKeepsOmitted ==
    [][(/\ op.name = "none"
        /\ op'.name = "upsert_profile"
        /\ op'.arg[2] \in DOMAIN profiles) =>
          \A key \in OptionalKeys \ DOMAIN op'.arg[1] :
             profiles'[op'.arg[2]][key] = profiles[op'.arg[2]][key]]_vars

\* C38: a step in which a cycle writes change records or rows is the whole
\* diff-and-upsert phase of that cycle: the records are the differences to
\* the rows as the store holds them in that step, upsert_jobs is called in
\* the same step (unless a record_job_change raised), and no other worker
\* takes a step in between.
C38_DiffUpsertAtomic ==
    [][(job_changes' # job_changes \/ jobs' # jobs \/ op'.name = "loop") =>
          /\ op.name = "none"
          /\ op'.name = "scrape"
          /\ op'.upserted \/ op'.raised
          /\ op'.calls = DetailLoop([st |-> Store, seq |-> change_seq, batch |-> <<>>,
                                     calls |-> <<>>, raised |-> FALSE],
                                    op'.arg, 1, op'.profile, now).calls
          /\ \A v \in ProfileIds \ {op'.profile} : fetches'[v] = fetches[v]]_vars

\* a cycle has written a change record and called upsert_jobs while the
\* other worker is in its detail stage, holding a permit
C38_Witness ==
    /\ op.name = "scrape"
    /\ op.calls # <<>>
    /\ op.upserted
    /\ \E v \in ProfileIds \ {op.profile} :
          \E i \in DOMAIN fetches[v] : Holding(fetches[v][i])

\* the fetches that are inside "async with semaphore"
Holders == {<<w, i>> \in ProfileIds \X (1..(MaxFetches + 1)) :
              i \in DOMAIN fetches[w] /\ Holding(fetches[w][i])}

\* C39: the permits taken are those of the fetches inside "async with
\* semaphore": a fetch takes one permit before its jitter sleep, keeps it
\* through its attempts and backoff sleeps and gives it back when it
\* returns, raises or is cancelled; with no fetch inside, 3 permits are free.
C39_PermitsConserved ==
    /\ [](job_semaphore + Cardinality(Holders) = 3)
    /\ [](Holders = {} => job_semaphore = 3)
    /\ [][\A w \in ProfileIds : \A i \in DOMAIN fetches[w] :
            /\ (fetches[w][i].pc = "acquire" /\ i \in DOMAIN fetches'[w]
                /\ fetches'[w][i].pc # "acquire") =>
                  /\ fetches'[w][i].pc = "jitter"
                  /\ job_semaphore' = job_semaphore - 1
            /\ (Holding(fetches[w][i]) /\ i \in DOMAIN fetches'[w]
                /\ ~Holding(fetches'[w][i])) =>
                  /\ fetches'[w][i].pc \in {"detail", "sentinel"}
                  /\ job_semaphore' = job_semaphore + 1]_vars

\* every path out has been taken: a fetch returned its page, another gave
\* up after its last attempt, and all permits are back
C39_Witness ==
    /\ job_semaphore = 3
    /\ \E w \in ProfileIds : \E i \in DOMAIN fetches[w] : fetches[w][i].pc = "sentinel"
    /\ \E w \in ProfileIds : \E i \in DOMAIN fetches[w] : fetches[w][i].pc = "detail"

\* C40: in one cycle a job id is fetched at most once, is at most once in
\* the upsert batch, and gets at most one change record per tracked field.
C40_OncePerJobId ==
    /\ [](cycle.pc = "details" =>
            \A i, j \in DOMAIN fetches[cycle.profile] :
               cycle.summaries[i] = cycle.summaries[j] => i = j)
    /\ [](\A i, j \in DOMAIN cycle.batch :
            cycle.batch[i]["job_id"] = cycle.batch[j]["job_id"] => i = j)
    /\ [][cycle.pc = "loop" =>
            \A a, b \in (Len(job_changes) + 1)..Len(job_changes') :
               (/\ job_changes'[a].job_id = job_changes'[b].job_id
                /\ job_changes'[a].field_name = job_changes'[b].field_name) => a = b]_vars
====
